---- MODULE Spec2Model ----
(***************************************************************************)
(* Audio-reactive effect system: the frame-clock engine (EffectEngine),    *)
(* the audio metrics sampler (AudioDataProvider) and the module-level      *)
(* analyser handle of app/audio/audio.ts.                                  *)
(*                                                                         *)
(* JavaScript is single threaded: the model keeps an explicit call stack.  *)
(* Host events (a client call, a frame-clock callback) start only when the *)
(* stack is empty; while a tick or a subscriber callback is on the stack   *)
(* only the code on top of the stack makes steps.  Map and Set are         *)
(* modelled as ECMAScript specifies them: an entries list in which a       *)
(* deleted entry leaves an empty slot, and iterators that are indexes into *)
(* that list (so they see entries appended during the iteration).          *)
(***************************************************************************)
EXTENDS Integers, Sequences, FiniteSets, TLC

\* ---------------------------------------------------------------- bounds
MaxInstances == 2
MaxSubs == 2
MaxFrames == 2
MaxCbOps == 2
\* Effect instances constructed and frames run in the audio specification.
MaxAudioInstances == 2
MaxAudioFrames == 1
\* load() calls in flight in the configuration specification.
MaxFetches == 2
\* update() calls on one animator instance in the animator specification.
MaxUpdates == 3

EffectIds == {"A", "B"}
Callbacks == {"c1", "c2"}
TrackIds == {"t1"}
NoTrack == "undefined"
Undefined == "undefined"
GlobalNode == "analyser"
\* The AnalyserNode of track t (a handle; its name is the track's).
TrackNode(t) == t

\* Milliseconds between two display frames.
FrameMs == 20

\* ------------------------------------------------------- audio analysis
\* The audioAnalysis section of the configuration document (its values come
\* from /effect/config.json; small buffers keep the model finite).
AudioAnalysisConfig ==
  [fft |-> [fftSize |-> 2, frequencyBinCount |-> 4],
   frequencyBands |-> [bass    |-> [start |-> 0, end |-> 0],
                       midLow  |-> [start |-> 1, end |-> 1],
                       midHigh |-> [start |-> 2, end |-> 2],
                       treble  |-> [start |-> 3, end |-> 9]]]

\* What an AnalyserNode can write into the two shared buffers on one read:
\* <<frequency bytes, time-domain bytes>>.  Each node has its own signal.
\* The buffers are scratch storage: the metrics are computed from them
\* before the read returns, and the animators read the metrics only.
AnalyserReads(node) ==
  LET nf == AudioAnalysisConfig.fft.frequencyBinCount
      nt == AudioAnalysisConfig.fft.fftSize
  IN IF node = GlobalNode
       THEN {<<[i \in 1..nf |-> 200], [i \in 1..nt |-> 255]>>}
       ELSE {<<[i \in 1..nf |-> 40 * i], [i \in 1..nt |-> 64]>>}

Min2(a, b) == IF a < b THEN a ELSE b
Max2(a, b) == IF a > b THEN a ELSE b

RECURSIVE SumSeq(_, _, _)
SumSeq(s, lo, hi) == IF lo > hi THEN 0 ELSE s[lo] + SumSeq(s, lo + 1, hi)

\* Integer square root (floor).
Isqrt(n) == CHOOSE r \in 0..100 : r * r <= n /\ (r + 1) * (r + 1) > n

\* computeRMS, in hundredths (0..100), rounded down:
\* sqrt(mean(((sample - 128) / 128)^2)).
computeRMS(td) ==
  LET sq == [i \in 1..Len(td) |-> (td[i] - 128) * (td[i] - 128)]
  IN Isqrt((SumSeq(sq, 1, Len(td)) * 10000) \div (128 * 128 * Len(td)))

\* getBandAverage over the inclusive bin range (bins are 0-based in the code,
\* sequences 1-based here), rounded down.
getBandAverage(fb, startBin, endBin) ==
  LET actualEnd == Min2(endBin, Len(fb) - 1)
      actualStart == Max2(startBin, 0)
  IN IF actualStart > actualEnd
       THEN 0
       ELSE SumSeq(fb, actualStart + 1, actualEnd + 1) \div (actualEnd - actualStart + 1)

\* A sampler whose fallback snapshot carries levels left over from an earlier read.
getEmptyFrameData_Stale(t) ==
  [rms |-> 50, bass |-> 40, midLow |-> 80, midHigh |-> 120, treble |-> 160,
   timestamp |-> t, from |-> "undefined"]

\* getEmptyFrameData: the neutral snapshot.  `from` is a history field: the
\* analyser whose read produced the scalars (Undefined for the neutral one).
getEmptyFrameData(t) ==
  [rms |-> 0, bass |-> 0, midLow |-> 0, midHigh |-> 0, treble |-> 0,
   timestamp |-> t, from |-> Undefined]

\* The metrics computed from the shared buffers after a read of `node`.
ComputeFrame(fb, td, t, node) ==
  LET bands == AudioAnalysisConfig.frequencyBands
  IN [rms |-> computeRMS(td),
      bass |-> getBandAverage(fb, bands.bass.start, bands.bass.end),
      midLow |-> getBandAverage(fb, bands.midLow.start, bands.midLow.end),
      midHigh |-> getBandAverage(fb, bands.midHigh.start, bands.midHigh.end),
      treble |-> getBandAverage(fb, bands.treble.start, bands.treble.end),
      timestamp |-> t, from |-> node]

\* getFrameData: read is the pair the global analyser writes if it is there.
getFrameData(analyzer, read, t) ==
  IF analyzer = Undefined
    THEN getEmptyFrameData(t)
    ELSE ComputeFrame(read[1], read[2], t, analyzer)

\* getTrackFrameData: the analyser registered under trackId, or neutral data.
getTrackFrameData(tracks, trackId, read, t) ==
  IF tracks[trackId] = Undefined
    THEN getEmptyFrameData(t)
    ELSE ComputeFrame(read[1], read[2], t, tracks[trackId])

\* isAvailable
isAvailable(analyzer) == analyzer # Undefined

IsNeutral(d) ==
  d.rms = 0 /\ d.bass = 0 /\ d.midLow = 0 /\ d.midHigh = 0 /\ d.treble = 0

\* ------------------------------------------------------------ the state
VARIABLES
  effects,           \* Map<string, EffectEntry>: the entries list, in insertion order
  animationFrameId,  \* RAF handle, Null when none
  lastFrameTime,     \* timestamp of the last frame
  frameCount,        \* total frames processed
  isRunning,         \* whether the loop is running
  audioAnalyzer,     \* the module-level analyser of app/audio/audio.ts
  trackAnalyzers,    \* Map<string, AnalyserNode> of the provider
  instances,         \* every EffectInstance constructed so far (index = identity)
  rafPending,        \* host: outstanding requestAnimationFrame requests
  now,               \* host: performance.now()
  stack,             \* call stack: tick() and subscriber-callback activations
  life               \* history: the events of the step just taken, in order: the
                     \* start()/end()/install of a registerEffect or
                     \* unregisterEffect call, the error a callback threw

\* The configuration loader, the factory registry and the call just made on
\* the configuration side (resolver, factory, registry, loader).
VARIABLES
  config,            \* EffectConfigLoader.config: Null, or the number of the document
  loading,           \* EffectConfigLoader.loading is a promise
  fetches,           \* load() calls suspended at `await this.loading`
  stale,             \* history: how many of them began before the last invalidate()
  factories,         \* EffectRegistryImpl.factories, in insertion order
  lastCall           \* history: the call of the step just taken and its outcome

configVars == <<config, loading, fetches, stale, factories, lastCall>>

\* The animator instance under observation and the update just made on it.
VARIABLES
  animator,          \* the fields of the EffectInstance, NoAnimator before it is made
  frame              \* history: the step just taken, the snapshot and deltaTime
                     \* of an update, and the clock (performance.now())

animVars == <<animator, frame>>

engineVars == <<effects, animationFrameId, lastFrameTime, frameCount, isRunning>>
audioVars == <<audioAnalyzer, trackAnalyzers>>
hostVars == <<rafPending, now>>
vars == <<effects, animationFrameId, lastFrameTime, frameCount, isRunning,
          audioAnalyzer, trackAnalyzers,
          instances, rafPending, now, stack, life,
          config, loading, fetches, stale, factories, lastCall,
          animator, frame>>

Null == 0
EmptySlot == ""

\* BaseEffectParams as far as the engine reads them.
ParamSets == [enabled : BOOLEAN, trackId : TrackIds \cup {NoTrack}]
\* The params of an effect that is enabled and bound to no track.
PlainParams == {[enabled |-> TRUE, trackId |-> NoTrack]}

\* The output an instance holds before its first update().
InitialOutput == [tick |-> 0, data |-> getEmptyFrameData(0)]

\* ------------------------------------------------------------- Map / Set
\* A deleted Map entry leaves an empty slot behind.  The entry object itself
\* stays reachable from a running tick (and from unsubscribe closures), which
\* use nothing but its subscriber Set: the slot keeps that Set.
Tombstone(entry) ==
  [live |-> FALSE, key |-> "", inst |-> 0, currentOutput |-> InitialOutput,
   subscribers |-> entry.subscribers]

MapHas(m, key) == \E k \in 1..Len(m) : m[k].live /\ m[k].key = key
MapIndex(m, key) == CHOOSE k \in 1..Len(m) : m[k].live /\ m[k].key = key
MapSize(m) == Cardinality({k \in 1..Len(m) : m[k].live})
MapDelete(m, key) ==
  IF MapHas(m, key) THEN [m EXCEPT ![MapIndex(m, key)] = Tombstone(@)] ELSE m
\* Map.prototype.set: an existing key keeps its place, a new key is appended.
MapSet(m, key, entry) ==
  IF MapHas(m, key) THEN [m EXCEPT ![MapIndex(m, key)] = entry] ELSE Append(m, entry)
\* An iterator that yields the most recently inserted entry first.
MapNext_Newest(m, idx) ==
  IF \E k \in (idx + 1)..Len(m) : m[k].live
    THEN CHOOSE k \in (idx + 1)..Len(m) :
           m[k].live /\ \A j \in (k + 1)..Len(m) : ~m[j].live
    ELSE 0

\* The Map iterator: the first live entry after position idx, 0 when exhausted.
MapNext(m, idx) ==
  IF \E k \in (idx + 1)..Len(m) : m[k].live
    THEN CHOOSE k \in (idx + 1)..Len(m) :
           m[k].live /\ \A j \in (idx + 1)..(k - 1) : ~m[j].live
    ELSE 0

SetHas(s, x) == \E j \in 1..Len(s) : s[j] = x
SetAdd(s, x) == IF SetHas(s, x) THEN s ELSE Append(s, x)
SetDelete(s, x) == [j \in 1..Len(s) |-> IF s[j] = x THEN EmptySlot ELSE s[j]]
\* Set.prototype.clear: every slot becomes empty.
SetClear(s) == [j \in 1..Len(s) |-> EmptySlot]
\* The Set iterator: the first non-empty slot after position idx, 0 when exhausted.
SetNext(s, idx) ==
  IF \E j \in (idx + 1)..Len(s) : s[j] # EmptySlot
    THEN CHOOSE j \in (idx + 1)..Len(s) :
           s[j] # EmptySlot /\ \A h \in (idx + 1)..(j - 1) : s[h] = EmptySlot
    ELSE 0

\* Empty slots matter only to a running iterator, and iterators live in
\* tick(): with no tick on the stack the subscriber lists are kept compact.
Compact(m) ==
  [k \in 1..Len(m) |->
     [m[k] EXCEPT !.subscribers = SelectSeq(@, LAMBDA x : x # EmptySlot)]]
Settle(m, stk) == IF stk = <<>> THEN Compact(m) ELSE m

\* ------------------------------------------------------------ call stack
Top == stack[Len(stack)]
Pop(stk) == SubSeq(stk, 1, Len(stk) - 1)
InTick == stack # <<>> /\ Top.k = "tick"
InCallback == stack # <<>> /\ Top.k = "cb"
\* A client call can be made by the host (empty stack) or by the subscriber
\* callback that is executing.
CanCall == stack = <<>> \/ (InCallback /\ Top.ops > 0)
\* The stack after the call returned to its caller.
Ret(stk) ==
  IF stk = <<>> THEN stk ELSE [stk EXCEPT ![Len(stk)].ops = @ - 1]

Ev(e, i) == [e |-> e, i |-> i]

\* The mutable engine/host state the synchronous engine methods work on
\* (the event history starts empty at each call).
St ==
  [effects |-> effects, animationFrameId |-> animationFrameId,
   isRunning |-> isRunning, rafPending |-> rafPending,
   instances |-> instances, life |-> <<>>, stack |-> stack]

\* ------------------------------------------------- engine methods (pure)
\* An unregistration that leaves the entry's subscriber Set as it is.
SetsClear_Keep(m, id) == m

\* `entry.subscribers.clear()` on the entry registered under id.
SetsClear(m, id) == [m EXCEPT ![MapIndex(m, id)].subscribers = SetClear(@)]

\* A stop() that cancels the frame request but keeps the running flag.
stop_StaysRunning(s) ==
  [s EXCEPT !.rafPending = IF s.animationFrameId # 0
                             THEN @ \ {s.animationFrameId} ELSE @,
            !.animationFrameId = 0]

\* stop(): cancel the outstanding frame request, if any, and go idle.
stop(s) ==
  [s EXCEPT !.rafPending = IF s.animationFrameId # Null
                             THEN @ \ {s.animationFrameId} ELSE @,
            !.animationFrameId = Null,
            !.isRunning = FALSE]

\* end(): the instance releases its state.  Nothing reads an ended instance
\* again, so its params and output are kept in one canonical form.
EndInstance(inst) ==
  [inst EXCEPT !.ended = @ + 1, !.out = InitialOutput,
               !.params = [enabled |-> TRUE, trackId |-> NoTrack]]

\* unregisterEffect(id): end() the instance, clear its subscribers, delete the
\* entry; stop the loop when no effect remains.
unregisterEffect(s, id) ==
  LET s1 == IF MapHas(s.effects, id)
              THEN LET i == s.effects[MapIndex(s.effects, id)].inst
                   IN [s EXCEPT !.instances[i] = EndInstance(@),
                                !.life = Append(@, Ev("end", i)),
                                !.effects = MapDelete(SetsClear(@, id), id)]
              ELSE s
  IN IF MapSize(s1.effects) = 0 THEN stop(s1) ELSE s1

\* A freshly constructed instance on which start() has been called.
StartedInstance(id, p) ==
  [id |-> id, params |-> p, started |-> 1, ended |-> 0, out |-> InitialOutput]

\* A registration that overwrites a previous holder of the id without
\* unregistering it.
registerEffect_Overwrite(s, id, p) ==
  LET i == Len(s.instances) + 1
      inst == StartedInstance(id, p)
      entry == [live |-> TRUE, key |-> id, inst |-> i,
                currentOutput |-> inst.out, subscribers |-> <<>>]
  IN [s EXCEPT !.instances = Append(@, inst),
               !.life = Append(Append(@, Ev("start", i)), Ev("install", i)),
               !.effects = MapSet(@, id, entry)]

\* registerEffect(instance) up to the test that starts the loop: unregister a
\* previous holder of the id, start() the instance, install its entry.
registerEffect(s, id, p) ==
  LET s1 == IF MapHas(s.effects, id) THEN unregisterEffect(s, id) ELSE s
      i == Len(s1.instances) + 1
      inst == StartedInstance(id, p)
      entry == [live |-> TRUE, key |-> id, inst |-> i,
                currentOutput |-> inst.out, subscribers |-> <<>>]
  IN [s1 EXCEPT !.instances = Append(@, inst),
                !.life = Append(Append(@, Ev("start", i)), Ev("install", i)),
                !.effects = MapSet(@, id, entry)]

\* A subscribe() that, for an id that is not registered, keeps the callback in
\* the Set of the entry last removed from the Map.
subscribe_Kept(m, id, cb) ==
  IF MapHas(m, id)
    THEN [m EXCEPT ![MapIndex(m, id)].subscribers = SetAdd(@, cb)]
    ELSE IF \E k \in 1..Len(m) : ~m[k].live
           THEN [m EXCEPT ![CHOOSE k \in 1..Len(m) :
                              ~m[k].live /\ \A j \in (k + 1)..Len(m) : m[j].live]
                            .subscribers = SetAdd(@, cb)]
           ELSE m

\* subscribe(id, callback): add the callback to the Set of the entry registered
\* under id; no entry, no effect (the closure returned is a no-op).
subscribe(m, id, cb) ==
  IF MapHas(m, id)
    THEN [m EXCEPT ![MapIndex(m, id)].subscribers = SetAdd(@, cb)]
    ELSE m

\* getEffectOutput(id): the stored output, or null (NullOutput).
NullOutput == [tick |-> -1, data |-> getEmptyFrameData(0)]
getEffectOutput(m, id) ==
  IF MapHas(m, id) THEN m[MapIndex(m, id)].currentOutput ELSE NullOutput

\* The abstract animator: the output of update() reports what it was fed;
\* `tick` is a history field, the number of the tick that made the call.
InstanceUpdate(inst, audioData, deltaTime, n) ==
  [tick |-> n, data |-> audioData]

\* A new activation of tick(), past its prologue.
\* idx and sidx are the Map and Set iterators, cur the entry being notified;
\* n (the number of this tick) and curInst (the instance of that entry) are
\* history fields.
TickFrame(n, global, deltaTime) ==
  [k |-> "tick", n |-> n, global |-> global, dt |-> deltaTime,
   idx |-> 0, cur |-> 0, sidx |-> 0, curInst |-> 0]

\* An activation of a subscriber callback, which makes at most MaxCbOps
\* engine calls.
CallbackFrame(cb) == [k |-> "cb", ops |-> MaxCbOps]

\* The reads the global analyser can deliver (none when there is no analyser).
GlobalReads(analyzer) ==
  IF analyzer = Undefined THEN {<<>>} ELSE AnalyserReads(analyzer)

\* tick() from its first statement to the effect loop, called at time t with
\* the stack stk below it and lastFrameTime = lft: frame accounting and the one
\* global snapshot.
TickPrologue(stk, lft, t) ==
  LET deltaTime == t - lft
  IN /\ lastFrameTime' = t
     /\ frameCount' = frameCount + 1
     /\ \E read \in GlobalReads(audioAnalyzer) :
          stack' = Append(stk, TickFrame(frameCount + 1,
                                         getFrameData(audioAnalyzer, read, t), deltaTime))

\* Install the result of a synchronous engine method and, when the loop
\* has to be started (start()), run tick()'s prologue on top of the caller.
Commit(r, needStart) ==
  /\ effects' = r.effects
  /\ instances' = r.instances
  /\ life' = r.life
  /\ rafPending' = r.rafPending
  /\ animationFrameId' = r.animationFrameId
  /\ UNCHANGED <<audioAnalyzer, trackAnalyzers, now>>
  /\ IF needStart
       THEN /\ isRunning' = TRUE
            /\ TickPrologue(Ret(r.stack), now, now)
       ELSE /\ isRunning' = r.isRunning
            /\ stack' = Ret(r.stack)
            /\ UNCHANGED <<lastFrameTime, frameCount>>

\* ---------------------------------------------------------------- Init
Init ==
  /\ effects = <<>>
  /\ animationFrameId = Null
  /\ lastFrameTime = 0
  /\ frameCount = 0
  /\ isRunning = FALSE
  /\ audioAnalyzer = Undefined
  /\ trackAnalyzers = [t \in TrackIds |-> Undefined]
  /\ instances = <<>>
  /\ rafPending = {}
  /\ now = 0
  /\ stack = <<>>
  /\ life = <<>>
  /\ config = Null
  /\ loading = FALSE
  /\ fetches = 0
  /\ stale = 0
  /\ factories = <<>>
  /\ lastCall = [op |-> "none"]
  /\ animator = [type |-> "none"]
  /\ frame = [op |-> "none", time |-> 0, deltaTime |-> 0,
              audioData |-> getEmptyFrameData(0)]

\* ------------------------------------------------------- client actions
\* EffectEngine.registerEffect(instance), by the host or by a callback.
RegisterEffect(P) ==
  /\ CanCall
  /\ Len(instances) < MaxInstances
  /\ \E id \in EffectIds, p \in P :
       LET r == registerEffect(St, id, p)
       IN Commit(r, ~r.isRunning /\ MapSize(r.effects) > 0)

\* EffectEngine.unregisterEffect(id), by the host or by a callback.
UnregisterEffect ==
  /\ CanCall
  /\ \E id \in EffectIds : Commit(unregisterEffect(St, id), FALSE)

\* EffectEngine.subscribe(id, callback), by the host or by a callback, with a
\* callback that is not subscribed to the entry yet.
Subscribe(C) ==
  /\ CanCall
  /\ \E id \in EffectIds, cb \in C :
       /\ MapHas(effects, id)
            => LET k == MapIndex(effects, id)
               IN /\ ~SetHas(effects[k].subscribers, cb)
                  /\ Len(effects[k].subscribers) < MaxSubs
       /\ effects' = Settle(subscribe(effects, id, cb), stack)
  /\ stack' = Ret(stack)
  /\ UNCHANGED <<animationFrameId, lastFrameTime, frameCount, isRunning,
                 audioVars, instances, hostVars>>
  /\ life' = <<>>

\* The closure subscribe() returned: delete the callback from that entry's Set.
Unsubscribe ==
  /\ CanCall
  /\ \E k \in 1..Len(effects), cb \in Callbacks :
       /\ SetHas(effects[k].subscribers, cb)
       /\ effects' = Settle([effects EXCEPT ![k].subscribers = SetDelete(@, cb)], stack)
  /\ stack' = Ret(stack)
  /\ UNCHANGED <<animationFrameId, lastFrameTime, frameCount, isRunning,
                 audioVars, instances, hostVars>>
  /\ life' = <<>>

\* EffectEngine.updateEffectParams(id, partial): instance.setParams merges.
UpdateEffectParams ==
  /\ CanCall
  /\ \E id \in EffectIds, p \in ParamSets :
       /\ MapHas(effects, id)
       /\ LET i == effects[MapIndex(effects, id)].inst
          IN /\ instances[i].params # p
             /\ instances' = [instances EXCEPT ![i].params = p]
  /\ stack' = Ret(stack)
  /\ UNCHANGED <<engineVars, audioVars, hostVars>>
  /\ life' = <<>>

\* ------------------------------------------------------ audio collaborators
\* initializeAudioContext(): the analyser becomes available.
InitializeAudioContext ==
  /\ stack = <<>>
  /\ audioAnalyzer = Undefined
  /\ audioAnalyzer' = GlobalNode
  /\ UNCHANGED <<engineVars, trackAnalyzers, instances, hostVars, stack>>
  /\ life' = <<>>

\* closeAudioContext(): the analyser is dropped.
CloseAudioContext ==
  /\ stack = <<>>
  /\ audioAnalyzer # Undefined
  /\ audioAnalyzer' = Undefined
  /\ UNCHANGED <<engineVars, trackAnalyzers, instances, hostVars, stack>>
  /\ life' = <<>>

RegisterTrackAnalyzer ==
  /\ stack = <<>>
  /\ \E t \in TrackIds :
       /\ trackAnalyzers[t] = Undefined
       /\ trackAnalyzers' = [trackAnalyzers EXCEPT ![t] = TrackNode(t)]
  /\ UNCHANGED <<engineVars, audioAnalyzer, instances, hostVars, stack>>
  /\ life' = <<>>

UnregisterTrackAnalyzer ==
  /\ stack = <<>>
  /\ \E t \in TrackIds :
       /\ trackAnalyzers[t] # Undefined
       /\ trackAnalyzers' = [trackAnalyzers EXCEPT ![t] = Undefined]
  /\ UNCHANGED <<engineVars, audioAnalyzer, instances, hostVars, stack>>
  /\ life' = <<>>

\* ------------------------------------------------------------- the tick
\* requestAnimationFrame: the handle of the new request.  The host never
\* reuses a handle; the model names the new request by the least number that
\* is neither outstanding nor still held in animationFrameId.
requestAnimationFrame(pending, held) ==
  CHOOSE h \in 1..(Cardinality(pending) + 2) :
    /\ h \notin pending
    /\ h # held
    /\ \A g \in 1..(h - 1) : g \in pending \/ g = held

\* A tick that never skips an effect.
IsDisabled_Never(params) == FALSE

\* `params.enabled === false`: the effect is skipped.
IsDisabled(params) == params.enabled = FALSE

\* The test `params.trackId ?`: an absent id and the empty string are falsy.
\* (Every id of TrackIds is a non-empty string.)
Truthy(trackId) == trackId # NoTrack /\ trackId # ""

\* The reads the analyser of the effect's track can deliver (none when the
\* effect has no trackId or no analyser is registered under it).
TrackReads(params, tracks) ==
  IF Truthy(params.trackId) /\ tracks[params.trackId] # Undefined
    THEN AnalyserReads(tracks[params.trackId])
    ELSE {<<>>}

\* A tick that feeds every effect the shared snapshot.
AudioFor_Global(params, global, tracks, read, t) == global

\* `params.trackId ? getTrackFrameData(params.trackId) : globalAudioData`
AudioFor(params, global, tracks, read, t) ==
  IF Truthy(params.trackId)
    THEN getTrackFrameData(tracks, params.trackId, read, t)
    ELSE global

\* A tick that does not store what update() returned.
StoreOutput_Drop(entry, out) == entry

\* `entry.currentOutput = entry.instance.update(...)`
StoreOutput(entry, out) == [entry EXCEPT !.currentOutput = out]

\* The callbacks a subscriber Set holds.
Members(s) == {s[j] : j \in 1..Len(s)} \ {EmptySlot}

\* The callbacks the subscriber loop of tick frame f has yet to invoke: those
\* in the slots of the entry's Set the iterator has not reached.
Remaining(f, m) ==
  IF f.cur = 0 THEN {}
  ELSE {m[f.cur].subscribers[j] :
          j \in (f.sidx + 1)..Len(m[f.cur].subscribers)} \ {EmptySlot}

\* The next callback slot of the subscriber loop of the current entry.
NextSubscriber(f, m) ==
  IF f.cur = 0 THEN 0 ELSE SetNext(m[f.cur].subscribers, f.sidx)

\* No catch clause: the error unwinds the tick that made the call.
OnCallbackError_Unwind(stk) == Pop(Pop(stk))

\* The catch clause around callback(): the error is logged and the
\* subscriber loop goes on.
OnCallbackError(stk) == Pop(stk)

\* The host runs a frame-clock callback (always the engine's tick).
RafFire ==
  /\ stack = <<>>
  /\ now < MaxFrames * FrameMs
  /\ \E id \in rafPending : rafPending' = rafPending \ {id}
  /\ now' = now + FrameMs
  /\ IF isRunning
       THEN TickPrologue(<<>>, lastFrameTime, now')
       ELSE UNCHANGED <<lastFrameTime, frameCount, stack>>
  /\ UNCHANGED <<effects, animationFrameId, isRunning, audioAnalyzer, trackAnalyzers,
                 instances>>
  /\ life' = <<>>

\* One iteration of `for (const [id, entry] of this.effects)` up to the
\* subscriber loop: skip a disabled effect, otherwise update it and store
\* its output.
TickVisit ==
  /\ InTick
  /\ NextSubscriber(Top, effects) = 0
  /\ MapNext(effects, Top.idx) # 0
  /\ LET f == Top
         k == MapNext(effects, f.idx)
         i == effects[k].inst
         params == instances[i].params
     IN IF IsDisabled(params)
          THEN /\ stack' = [stack EXCEPT ![Len(stack)] =
                              [f EXCEPT !.idx = k, !.cur = 0, !.sidx = 0, !.curInst = 0]]
               /\ UNCHANGED <<effects, instances>>
          ELSE \E read \in TrackReads(params, trackAnalyzers) :
                 LET audioData == AudioFor(params, f.global, trackAnalyzers, read, now)
                     out == InstanceUpdate(instances[i], audioData, f.dt, f.n)
                 IN /\ instances' = [instances EXCEPT ![i].out = out]
                    /\ effects' = [effects EXCEPT ![k] = StoreOutput(@, out)]
                    /\ stack' = [stack EXCEPT ![Len(stack)] =
                                   [f EXCEPT !.idx = k, !.cur = k, !.sidx = 0,
                                             !.curInst = i]]
  /\ UNCHANGED <<animationFrameId, lastFrameTime, frameCount, isRunning,
                 audioAnalyzer, trackAnalyzers, hostVars>>
  /\ life' = <<>>

\* One iteration of `for (const callback of entry.subscribers)`: call it.
TickNotify ==
  /\ InTick
  /\ NextSubscriber(Top, effects) # 0
  /\ LET f == Top
         j == NextSubscriber(f, effects)
         cb == effects[f.cur].subscribers[j]
     IN stack' = Append([stack EXCEPT ![Len(stack)] = [f EXCEPT !.sidx = j]],
                        CallbackFrame(cb))
  /\ UNCHANGED <<engineVars, audioVars, instances, hostVars>>
  /\ life' = <<>>

\* The callback returns.
CallbackReturn ==
  /\ InCallback
  /\ stack' = Pop(stack)
  /\ UNCHANGED <<engineVars, audioVars, instances, hostVars>>
  /\ life' = <<>>

\* The callback throws (console.error is the event recorded).
CallbackThrow ==
  /\ InCallback
  /\ stack' = OnCallbackError(stack)
  /\ UNCHANGED <<engineVars, audioVars, instances, hostVars>>
  /\ life' = <<Ev("error", 0)>>

\* Both loops are exhausted: `this.animationFrameId = requestAnimationFrame(this.tick)`.
TickEnd ==
  /\ InTick
  /\ NextSubscriber(Top, effects) = 0
  /\ MapNext(effects, Top.idx) = 0
  /\ animationFrameId' = requestAnimationFrame(rafPending, animationFrameId)
  /\ rafPending' = rafPending \cup {requestAnimationFrame(rafPending, animationFrameId)}
  /\ stack' = Pop(stack)
  /\ effects' = Settle(effects, Pop(stack))
  /\ UNCHANGED <<lastFrameTime, frameCount, isRunning, audioVars, instances, now>>
  /\ life' = <<>>

\* The engine with plain effects and silent audio: registration, subscription
\* and the frame loop, with subscriber callbacks that call back into the engine.
Next ==
  \/ (RegisterEffect(PlainParams) /\ UNCHANGED <<configVars, animVars>>)
  \/ (UnregisterEffect /\ UNCHANGED <<configVars, animVars>>)
  \/ (Subscribe(Callbacks) /\ UNCHANGED <<configVars, animVars>>)
  \/ (Unsubscribe /\ UNCHANGED <<configVars, animVars>>)
  \/ (RafFire /\ UNCHANGED <<configVars, animVars>>)
  \/ (TickVisit /\ UNCHANGED <<configVars, animVars>>)
  \/ (TickNotify /\ UNCHANGED <<configVars, animVars>>)
  \/ (CallbackReturn /\ UNCHANGED <<configVars, animVars>>)
  \/ (CallbackThrow /\ UNCHANGED <<configVars, animVars>>)
  \/ (TickEnd /\ UNCHANGED <<configVars, animVars>>)

Spec == Init /\ [][Next]_vars

\* The engine fed by the audio sampler: effects of every parameter set and
\* analysers that come and go; subscriber callbacks only return or throw.
NextAudio ==
  \/ (stack = <<>> /\ Len(instances) < MaxAudioInstances /\ RegisterEffect(ParamSets) /\ UNCHANGED <<configVars, animVars>>)
  \/ (stack = <<>> /\ UnregisterEffect /\ UNCHANGED <<configVars, animVars>>)
  \/ (stack = <<>> /\ Subscribe({"c1"}) /\ UNCHANGED <<configVars, animVars>>)
  \/ (stack = <<>> /\ UpdateEffectParams /\ UNCHANGED <<configVars, animVars>>)
  \/ (InitializeAudioContext /\ UNCHANGED <<configVars, animVars>>)
  \/ (CloseAudioContext /\ UNCHANGED <<configVars, animVars>>)
  \/ (RegisterTrackAnalyzer /\ UNCHANGED <<configVars, animVars>>)
  \/ (UnregisterTrackAnalyzer /\ UNCHANGED <<configVars, animVars>>)
  \/ (now < MaxAudioFrames * FrameMs /\ RafFire /\ UNCHANGED <<configVars, animVars>>)
  \/ (TickVisit /\ UNCHANGED <<configVars, animVars>>)
  \/ (TickNotify /\ UNCHANGED <<configVars, animVars>>)
  \/ (CallbackReturn /\ UNCHANGED <<configVars, animVars>>)
  \/ (TickEnd /\ UNCHANGED <<configVars, animVars>>)

SpecAudio == Init /\ [][NextAudio]_vars

\* ------------------------------------------- configuration and factories
\* EffectIntensity and the level the factory assumes when none is given.
EffectIntensity == {"subtle", "mild", "moderate", "strong", "extreme"}
DefaultIntensity == "moderate"

\* An object without own properties ({}), also what an absent
\* `customParams` amounts to: spreading undefined adds nothing and
\* `customParams?.enabled` is undefined.
EmptyObject == [k \in {} |-> ""]

\* The documents /effect/config.json can hold (the `effects` section).  An
\* EffectTypeConfig has defaults and, optionally, intensityOverrides and
\* variants.  Parameter values are written as strings.
ConfigDocuments ==
  <<[effects |->
       [maskRadiusAnimator |->
          [defaults |-> [baseRadius |-> "50", smoothing |-> "0.8", intensity |-> "subtle"],
           intensityOverrides |->
             [moderate |-> [smoothing |-> "0.5"],
              strong |-> [baseRadius |-> "60", smoothing |-> "0.3"]],
           variants |->
             [trackVisualizer |-> [baseRadius |-> "70", intensity |-> "extreme",
                                   enabled |-> "false"]]],
        gradientTiltAnimator |->
          [defaults |-> [baseTilt |-> "0", smoothing |-> "0.8"]]]],
    [effects |->
       [maskRadiusAnimator |->
          [defaults |-> [minRadius |-> "20", baseRadius |-> "40",
                         maxRadius |-> "50", smoothing |-> "0.7"],
           variants |-> [trackVisualizer |-> [smoothing |-> "0.2"]]]]]>>

\* The number a parameter value of the documents and of the callers denotes.
NumberOf(value) ==
  CASE value = "20" -> 20
    [] value = "40" -> 40
    [] value = "50" -> 50
    [] value = "55" -> 55
    [] value = "60" -> 60
    [] value = "70" -> 70

\* The inputs of the calls.
EffectTypes == {"maskRadiusAnimator", "gradientTiltAnimator", "unknownAnimator"}
VariantNames == {"undefined", "trackVisualizer", "unknownVariant"}
CustomParams ==
  {EmptyObject,
   [baseRadius |-> "55"],
   [intensity |-> "strong"],
   [enabled |-> "false", smoothing |-> "0.1", intensity |-> "subtle"]}
FactoryTypes == {"maskRadiusAnimator", "gradientTiltAnimator"}
Factories == {"f1", "f2"}

\* obj[key] is an own property / `{ ...a, ...b }`.
Has(obj, key) == key \in DOMAIN obj
Spread(a, b) ==
  [k \in DOMAIN a \cup DOMAIN b |-> IF k \in DOMAIN b THEN b[k] ELSE a[k]]

\* The outcome of a call: a value returned or an error thrown, and what the
\* call wrote to the console.
Returned(v) == [threw |-> FALSE, error |-> "", value |-> v, logs |-> <<>>]
Thrown(e) == [threw |-> TRUE, error |-> e, value |-> EmptyObject, logs |-> <<>>]

\* A loader that hands out a document although none is cached.
getSync_Fallback(cfg) == Returned(IF cfg = 0 THEN 1 ELSE cfg)

\* EffectConfigLoader.getSync(): the cached document, or an error.
getSync(cfg) ==
  IF cfg = Null THEN Thrown("Effect config not loaded") ELSE Returned(cfg)

\* A resolver that applies the variant layer below the intensity layer.
resolveParams_VariantFirst(doc, effectType, intensity, variant, customParams) ==
  IF ~Has(doc.effects, effectType)
    THEN Thrown("Unknown effect type")
    ELSE LET effectConfig == doc.effects[effectType]
             r0 == effectConfig.defaults
             r1 == IF /\ variant # "undefined"
                      /\ Has(effectConfig, "variants")
                      /\ Has(effectConfig.variants, variant)
                     THEN Spread(r0, effectConfig.variants[variant])
                     ELSE r0
             r2 == IF /\ Has(effectConfig, "intensityOverrides")
                      /\ Has(effectConfig.intensityOverrides, intensity)
                     THEN Spread(r1, effectConfig.intensityOverrides[intensity])
                     ELSE r1
             r3 == Spread(r2, customParams)
         IN Returned(Spread(r3, [intensity |-> intensity,
                                 enabled |-> IF Has(customParams, "enabled")
                                               THEN customParams.enabled ELSE "true"]))

\* EffectConfigResolver.resolveParams({effectType, intensity, variant,
\* customParams}) on the document doc.
resolveParams(doc, effectType, intensity, variant, customParams) ==
  IF ~Has(doc.effects, effectType)
    THEN Thrown("Unknown effect type")
    ELSE LET effectConfig == doc.effects[effectType]
             r0 == effectConfig.defaults
             r1 == IF /\ Has(effectConfig, "intensityOverrides")
                      /\ Has(effectConfig.intensityOverrides, intensity)
                     THEN Spread(r0, effectConfig.intensityOverrides[intensity])
                     ELSE r0
             r2 == IF /\ variant # Undefined
                      /\ variant # ""
                      /\ Has(effectConfig, "variants")
                      /\ Has(effectConfig.variants, variant)
                     THEN Spread(r1, effectConfig.variants[variant])
                     ELSE r1
             r3 == Spread(r2, customParams)
         IN Returned(Spread(r3, [intensity |-> intensity,
                                 enabled |-> IF Has(customParams, "enabled")
                                               THEN customParams.enabled ELSE "true"]))

\* createResolver().resolveParams(...): the resolver is built on the loaded
\* document.
resolve(cfg, effectType, intensity, variant, customParams) ==
  IF getSync(cfg).threw
    THEN getSync(cfg)
    ELSE resolveParams(ConfigDocuments[getSync(cfg).value], effectType, intensity,
                       variant, customParams)

\* EffectFactory.getDefaultParams() of the factory of the given type.
getDefaultParams(cfg, type) ==
  resolve(cfg, type, DefaultIntensity, Undefined, EmptyObject)

\* createInstance(id, params): the animator is constructed with params (its
\* constructor reads the loaded document as well).
createInstance(cfg, id, params) ==
  IF getSync(cfg).threw
    THEN [getSync(cfg) EXCEPT !.value = EmptyObject] @@ [constructed |-> FALSE]
    ELSE Returned(params) @@ [constructed |-> TRUE]

\* EffectFactory.create(id, params)
create(cfg, type, id, params) ==
  LET d == getDefaultParams(cfg, type)
  IN IF d.threw
       THEN d @@ [constructed |-> FALSE]
       ELSE createInstance(cfg, id, Spread(d.value, params))

\* EffectFactory.createFromVariant(id, variantName, params)
createFromVariant(cfg, type, id, variantName, params) ==
  LET r == resolve(cfg, type,
                   IF Has(params, "intensity") THEN params.intensity ELSE DefaultIntensity,
                   variantName, params)
  IN IF r.threw
       THEN r @@ [constructed |-> FALSE]
       ELSE createInstance(cfg, id, r.value)

\* ----------------------------------------------------------- the registry
RegistryHas(m, type) == \E k \in 1..Len(m) : m[k].type = type
\* EffectRegistryImpl.getAnimator(type): the factory, or null ("null").
getAnimator(m, type) ==
  IF RegistryHas(m, type)
    THEN m[CHOOSE k \in 1..Len(m) : m[k].type = type].factory
    ELSE "null"

\* A registration that replaces the factory registered under the type.
register_Overwrite(m, type, factory) ==
  [registry |-> IF RegistryHas(m, type)
                  THEN [k \in 1..Len(m) |->
                          IF m[k].type = type THEN [type |-> type, factory |-> factory]
                                              ELSE m[k]]
                  ELSE Append(m, [type |-> type, factory |-> factory]),
   logs |-> <<>>]

\* EffectRegistryImpl.register(factory), the factory's type being `type`.
register(m, type, factory) ==
  IF RegistryHas(m, type)
    THEN [registry |-> m, logs |-> <<"Factory type already registered. Skipping duplicate.">>]
    ELSE [registry |-> Append(m, [type |-> type, factory |-> factory]), logs |-> <<>>]

\* ------------------------------------------ configuration-side actions
\* EffectConfigLoader.load(): cached document, pending promise, or a new fetch
\* whose continuation is suspended at `await this.loading`.
Load ==
  /\ IF config = Null /\ ~loading
       THEN /\ fetches < MaxFetches
            /\ loading' = TRUE
            /\ fetches' = fetches + 1
       ELSE UNCHANGED <<loading, fetches>>
  /\ lastCall' = [op |-> "load"]
  /\ UNCHANGED <<config, stale, factories>>

\* The suspended load() calls one of which can finish next: one that began
\* before the last invalidate() (TRUE) or one that began after it (FALSE).
Finishing == {old \in BOOLEAN : IF old THEN stale > 0 ELSE fetches > stale}

\* The fetch succeeds: `this.config = await this.loading`, then the finally
\* clause.
FetchResolve ==
  /\ fetches > 0
  /\ \E d \in 1..Len(ConfigDocuments) : config' = d
  /\ loading' = FALSE
  /\ fetches' = fetches - 1
  /\ \E old \in Finishing :
       /\ stale' = IF old THEN stale - 1 ELSE stale
       /\ lastCall' = [op |-> "fetchResolve", stale |-> old]
  /\ UNCHANGED factories

\* The fetch fails: only the finally clause runs.
FetchReject ==
  /\ fetches > 0
  /\ loading' = FALSE
  /\ fetches' = fetches - 1
  /\ \E old \in Finishing :
       /\ stale' = IF old THEN stale - 1 ELSE stale
       /\ lastCall' = [op |-> "fetchReject", stale |-> old]
  /\ UNCHANGED <<config, factories>>

\* EffectConfigLoader.invalidate()
Invalidate ==
  /\ config' = Null
  /\ loading' = FALSE
  /\ stale' = fetches
  /\ lastCall' = [op |-> "invalidate"]
  /\ UNCHANGED <<fetches, factories>>

\* createResolver().resolveParams(...)
Resolve ==
  /\ \E type \in EffectTypes, intensity \in EffectIntensity, variant \in VariantNames,
        p \in CustomParams :
       lastCall' = [op |-> "resolve", type |-> type, intensity |-> intensity,
                    variant |-> variant, params |-> p,
                    out |-> resolve(config, type, intensity, variant, p)]
  /\ UNCHANGED <<config, loading, fetches, stale, factories>>

\* factory.create(id, params) on the factory of the given type.
Create ==
  /\ \E type \in EffectTypes, p \in CustomParams :
       lastCall' = [op |-> "create", type |-> type, params |-> p,
                    out |-> create(config, type, "A", p)]
  /\ UNCHANGED <<config, loading, fetches, stale, factories>>

\* factory.createFromVariant(id, variantName, params)
CreateFromVariant ==
  /\ \E type \in EffectTypes, variant \in VariantNames \ {Undefined}, p \in CustomParams :
       lastCall' = [op |-> "createFromVariant", type |-> type, variant |-> variant,
                    params |-> p,
                    out |-> createFromVariant(config, type, "A", variant, p)]
  /\ UNCHANGED <<config, loading, fetches, stale, factories>>

\* EffectRegistry.register(factory)
Register ==
  /\ \E type \in FactoryTypes, f \in Factories :
       /\ factories' = register(factories, type, f).registry
       /\ lastCall' = [op |-> "register", type |-> type, factory |-> f,
                       logs |-> register(factories, type, f).logs]
  /\ UNCHANGED <<config, loading, fetches, stale>>

\* EffectRegistry.clear()
ClearRegistry ==
  /\ factories # <<>>
  /\ factories' = <<>>
  /\ lastCall' = [op |-> "clear"]
  /\ UNCHANGED <<config, loading, fetches, stale>>

\* EffectRegistry.getAnimator(type)
GetAnimator ==
  /\ \E type \in FactoryTypes :
       lastCall' = [op |-> "getAnimator", type |-> type,
                    out |-> getAnimator(factories, type)]
  /\ UNCHANGED <<config, loading, fetches, stale, factories>>

engineSide ==
  <<effects, animationFrameId, lastFrameTime, frameCount, isRunning,
    audioAnalyzer, trackAnalyzers, instances, rafPending, now, stack, life>>

\* The configuration side on its own: the loader, the resolver, the factories
\* and the registry.
NextConfig ==
  \/ (Load /\ UNCHANGED <<engineSide, animVars>>)
  \/ (FetchResolve /\ UNCHANGED <<engineSide, animVars>>)
  \/ (FetchReject /\ UNCHANGED <<engineSide, animVars>>)
  \/ (Invalidate /\ UNCHANGED <<engineSide, animVars>>)
  \/ (Resolve /\ UNCHANGED <<engineSide, animVars>>)
  \/ (Create /\ UNCHANGED <<engineSide, animVars>>)
  \/ (CreateFromVariant /\ UNCHANGED <<engineSide, animVars>>)
  \/ (Register /\ UNCHANGED <<engineSide, animVars>>)
  \/ (ClearRegistry /\ UNCHANGED <<engineSide, animVars>>)
  \/ (GetAnimator /\ UNCHANGED <<engineSide, animVars>>)

SpecConfig == Init /\ [][NextConfig]_vars

\* -------------------------------------------------------------- animators
\* One effect instance on its own: construction, start() and the update()
\* calls a tick makes on it.  Levels, multipliers and outputs are fixed-point
\* numbers in thousandths (Unit is 1.0), divisions round down; the rms of a
\* snapshot is in hundredths as computeRMS leaves it; times are in hundredths
\* of a millisecond.
Unit == 1000
\* The 16.67 ms reference frame of smoothDamp.
ReferenceFrame == 1667

\* DEFAULT_INTENSITY_MULTIPLIERS, the table config.intensityMultipliers holds.
DEFAULT_INTENSITY_MULTIPLIERS ==
  [subtle |-> 200, mild |-> 400, moderate |-> 600, strong |-> 800,
   extreme |-> 1000]
\* The order of the levels.
IntensityRank ==
  [subtle |-> 1, mild |-> 2, moderate |-> 3, strong |-> 4, extreme |-> 5]

\* config.audioAnalysis.normalization
Normalization == [rmsMultiplier |-> 2000, frequencyDivisor |-> 255]

clamp(value, min, max) == Min2(Max2(value, min), max)

lerp(current, target, factor) ==
  current + ((target - current) * factor) \div Unit

\* Math.pow(base, exponent) for a whole exponent; Math.pow(0, 0) is 1.
RECURSIVE pow(_, _)
pow(base, exponent) ==
  IF exponent = 0 THEN Unit ELSE (base * pow(base, exponent - 1)) \div Unit

\* A damping that moves past its target.
smoothDamp_Overshoot(current, target, smoothing, deltaTime) ==
  lerp(current, target, Unit + pow(smoothing, deltaTime \div ReferenceFrame))

\* smoothDamp; deltaTime is a whole number of reference frames here.
smoothDamp(current, target, smoothing, deltaTime) ==
  lerp(current, target, Unit - pow(smoothing, deltaTime \div ReferenceFrame))

\* The switch on audioAnalysisSource: the raw value normalised to 0..1.
KnownSources == {"rms", "bass", "midLow", "midHigh", "treble"}
getAudioValue(audioData, source) ==
  CASE source = "rms" ->
         clamp((audioData.rms * 10 * Normalization.rmsMultiplier) \div Unit,
               0, Unit)
    [] source = "bass" ->
         (audioData.bass * Unit) \div Normalization.frequencyDivisor
    [] source = "midLow" ->
         (audioData.midLow * Unit) \div Normalization.frequencyDivisor
    [] source = "midHigh" ->
         (audioData.midHigh * Unit) \div Normalization.frequencyDivisor
    [] source = "treble" ->
         (audioData.treble * Unit) \div Normalization.frequencyDivisor
    [] OTHER -> 0

\* multipliers[intensity] of { ...this.intensityMultipliers, ...customMultipliers }
MultiplierOf(params) ==
  Spread(DEFAULT_INTENSITY_MULTIPLIERS, params.intensityMultipliers)[params.intensity]

\* A range that shrinks as the multiplier grows.
effectiveRange_Inverse(min, max, multiplier) ==
  ((max - min) * (Unit - multiplier)) \div Unit

\* effectiveRange = range * multiplier
effectiveRange(min, max, multiplier) == ((max - min) * multiplier) \div Unit

\* An effective range that starts at the minimum instead of around the base.
effectiveMin_Uncentred(min, max, base, multiplier) == min

\* The effective range centred on the base value.
effectiveMin(min, max, base, multiplier) ==
  Max2(min, base - effectiveRange(min, max, multiplier) \div 2)
effectiveMax(min, max, base, multiplier) ==
  Min2(max, base + effectiveRange(min, max, multiplier) \div 2)

\* effectiveMin + smoothedValue * (effectiveMax - effectiveMin)
MapSmoothed(lo, hi, smoothedValue) == lo + (smoothedValue * (hi - lo)) \div Unit

\* cos and sin of a whole number of degrees (a multiple of 15), in thousandths.
CosTable == <<1000, 966, 866, 707, 500, 259, 0>>
Cos(deg) ==
  LET d == deg % 360
      q == IF d <= 180 THEN d ELSE 360 - d
  IN IF q <= 90 THEN CosTable[q \div 15 + 1] ELSE 0 - CosTable[(180 - q) \div 15 + 1]
Sin(deg) == Cos(deg + 270)

\* ------------------------------------------------- the animator instances
AnimatorTypes ==
  {"maskRadiusAnimator", "gradientTiltAnimator", "elementOpacityAnimator",
   "gradientScaleAnimator", "gradientPositionAnimator",
   "glitchIntensityAnimator"}

\* The output the constructor stores: the base values.
BaseOutput(type, params) ==
  CASE type = "maskRadiusAnimator" -> [radius |-> params.baseRadius]
    [] type = "gradientTiltAnimator" -> [tilt |-> params.baseTilt]
    [] type = "elementOpacityAnimator" ->
         [opacity |-> params.baseOpacity,
          normalizedOpacity |-> params.baseOpacity \div 100]
    [] type = "gradientScaleAnimator" ->
         [width |-> params.baseWidth, height |-> params.baseHeight,
          widthScaleFactor |-> Unit, heightScaleFactor |-> Unit]
    [] type = "gradientPositionAnimator" ->
         [x |-> params.baseX, y |-> params.baseY]
    [] type = "glitchIntensityAnimator" ->
         [speed |-> "slow", shouldGlitch |-> FALSE, rawIntensity |-> 0]

\* new ...EffectInstance(id, params, intensityMultipliers): the private
\* fields of the six classes in one record.  History fields: started,
\* updates (update() calls since the construction), fedNeutral (every
\* snapshot fed so far was the neutral one), warnings (console.warn calls),
\* peaks (the updates of the position animator on which isPeak was true, and
\* of the glitch animator on which the smoothed value exceeded the threshold).
NewAnimator(type, params) ==
  LET isPosition == type = "gradientPositionAnimator"
  IN [type |-> type, params |-> params,
      smoothedValue |-> 0, smoothedHeightValue |-> 0,
      currentX |-> IF isPosition THEN params.baseX ELSE 0,
      currentY |-> IF isPosition THEN params.baseY ELSE 0,
      previousAudioLevel |-> 0, peakOffsetX |-> 0, peakOffsetY |-> 0,
      radialAngle |-> 0, lastPeakTime |-> 0,
      currentOutput |-> BaseOutput(type, params),
      started |-> FALSE, updates |-> 0, fedNeutral |-> TRUE, warnings |-> 0,
      peaks |-> 0]

\* start()
AnimatorStart(a) ==
  LET half == IF a.type \in {"gradientPositionAnimator", "glitchIntensityAnimator"}
                THEN 0 ELSE Unit \div 2
  IN [a EXCEPT !.smoothedValue = half,
               !.smoothedHeightValue =
                  IF a.type = "gradientScaleAnimator" THEN Unit \div 2 ELSE @,
               !.currentX = IF a.type = "gradientPositionAnimator"
                              THEN a.params.baseX ELSE @,
               !.currentY = IF a.type = "gradientPositionAnimator"
                              THEN a.params.baseY ELSE @,
               !.previousAudioLevel = 0, !.peakOffsetX = 0, !.peakOffsetY = 0,
               !.radialAngle = 0, !.lastPeakTime = 0,
               !.started = TRUE]

\* The default branch of the switch warns (the scale animator's does not).
Warned(a) ==
  IF a.params.audioAnalysisSource \notin KnownSources
     /\ a.type # "gradientScaleAnimator"
    THEN 1 ELSE 0

\* MaskRadiusAnimatorEffectInstance.update
MaskRadiusUpdate(a, audioData, deltaTime) ==
  LET p == a.params
      rawValue == getAudioValue(audioData, p.audioAnalysisSource)
      smoothedValue == smoothDamp(a.smoothedValue, rawValue, p.smoothing, deltaTime)
      multiplier == MultiplierOf(p)
      lo == effectiveMin(p.minRadius, p.maxRadius, p.baseRadius, multiplier)
      hi == effectiveMax(p.minRadius, p.maxRadius, p.baseRadius, multiplier)
      radius == MapSmoothed(lo, hi, smoothedValue)
  IN [a EXCEPT !.smoothedValue = smoothedValue,
               !.currentOutput = [radius |-> clamp(radius, p.minRadius, p.maxRadius)]]

\* The non-oscillating mapping of the tilt animator.
LinearTilt(minTilt, maxTilt, multiplier, smoothedValue) ==
  minTilt + (smoothedValue * effectiveRange(minTilt, maxTilt, multiplier)) \div Unit

\* GradientTiltAnimatorEffectInstance.update
GradientTiltUpdate(a, audioData, deltaTime) ==
  LET p == a.params
      rawValue == getAudioValue(audioData, p.audioAnalysisSource)
      smoothedValue == smoothDamp(a.smoothedValue, rawValue, p.smoothing, deltaTime)
      multiplier == MultiplierOf(p)
      lo == effectiveMin(p.minTilt, p.maxTilt, p.baseTilt, multiplier)
      hi == effectiveMax(p.minTilt, p.maxTilt, p.baseTilt, multiplier)
      tilt == IF p.oscillate
                THEN MapSmoothed(lo, hi, smoothedValue)
                ELSE LinearTilt(p.minTilt, p.maxTilt, multiplier, smoothedValue)
  IN [a EXCEPT !.smoothedValue = smoothedValue,
               !.currentOutput = [tilt |-> clamp(tilt, p.minTilt, p.maxTilt)]]

\* ElementOpacityAnimatorEffectInstance.update
ElementOpacityUpdate(a, audioData, deltaTime) ==
  LET p == a.params
      rawValue == getAudioValue(audioData, p.audioAnalysisSource)
      smoothedValue == smoothDamp(a.smoothedValue, rawValue, p.smoothing, deltaTime)
      multiplier == MultiplierOf(p)
      lo == effectiveMin(p.minOpacity, p.maxOpacity, p.baseOpacity, multiplier)
      hi == effectiveMax(p.minOpacity, p.maxOpacity, p.baseOpacity, multiplier)
      clampedOpacity == clamp(MapSmoothed(lo, hi, smoothedValue),
                              p.minOpacity, p.maxOpacity)
  IN [a EXCEPT !.smoothedValue = smoothedValue,
               !.currentOutput = [opacity |-> clampedOpacity,
                                  normalizedOpacity |-> clampedOpacity \div 100]]

\* The source the height follows when the aspect is not locked.
heightSource(audioAnalysisSource) ==
  CASE audioAnalysisSource = "bass" -> "treble"
    [] audioAnalysisSource = "treble" -> "bass"
    [] audioAnalysisSource = "midLow" -> "midHigh"
    [] OTHER -> "midLow"

\* The scale factor of one channel: no clamp follows it.
ScaleFactor(minScale, maxScale, multiplier, smoothedValue) ==
  MapSmoothed(effectiveMin(minScale, maxScale, Unit, multiplier),
              effectiveMax(minScale, maxScale, Unit, multiplier),
              smoothedValue)

\* GradientScaleAnimatorEffectInstance.update; widthScaleFactor and
\* heightScaleFactor are the locals of that name (scaleFactor for both when
\* the aspect is locked), kept as history fields of the output.
GradientScaleUpdate(a, audioData, deltaTime) ==
  LET p == a.params
      multiplier == MultiplierOf(p)
      widthRaw == getAudioValue(audioData, p.audioAnalysisSource)
      heightRaw == getAudioValue(audioData, heightSource(p.audioAnalysisSource))
      smoothedWidthValue == smoothDamp(a.smoothedValue, widthRaw, p.smoothing, deltaTime)
      smoothedHeightValue ==
        IF p.aspectLock
          THEN a.smoothedHeightValue
          ELSE smoothDamp(a.smoothedHeightValue, heightRaw, p.smoothing, deltaTime)
      widthScaleFactor ==
        ScaleFactor(p.minScale, p.maxScale, multiplier, smoothedWidthValue)
      heightScaleFactor ==
        IF p.aspectLock
          THEN widthScaleFactor
          ELSE ScaleFactor(p.minScale, p.maxScale, multiplier, smoothedHeightValue)
  IN [a EXCEPT !.smoothedValue = smoothedWidthValue,
               !.smoothedHeightValue = smoothedHeightValue,
               !.currentOutput =
                  [width |-> (p.baseWidth * widthScaleFactor) \div Unit,
                   height |-> (p.baseHeight * heightScaleFactor) \div Unit,
                   widthScaleFactor |-> widthScaleFactor,
                   heightScaleFactor |-> heightScaleFactor]]

\* A position animator whose offsets never decay and whose position stays put.
GradientPositionUpdate_NoDecay(a, audioData, deltaTime, random1, random2) ==
  [a EXCEPT !.previousAudioLevel =
              getAudioValue(audioData, a.params.audioAnalysisSource),
            !.peakOffsetX = IF @ = 0 THEN a.params.maxDeviation ELSE @]

\* GradientPositionAnimatorEffectInstance.update; random1 and random2 are the
\* values of the Math.random() calls it makes (in thousandths).
GradientPositionUpdate(a, audioData, deltaTime, random1, random2) ==
  LET p == a.params
      rawValue == getAudioValue(audioData, p.audioAnalysisSource)
      effectiveDeviation == (p.maxDeviation * MultiplierOf(p)) \div Unit
      isPeak == rawValue - a.previousAudioLevel > p.peakThreshold
      radialAngle ==
        IF isPeak /\ p.movementStyle = "radial"
          THEN a.radialAngle + 45 + (45 * random1) \div Unit
          ELSE a.radialAngle
      angle == IF p.movementStyle = "radial" THEN radialAngle
               ELSE (360 * random1) \div Unit
      distance == (effectiveDeviation * rawValue) \div Unit
      peakX == IF p.movementStyle = "random"
                 THEN ((random1 - Unit \div 2) * 2 * effectiveDeviation) \div Unit
                 ELSE (Cos(angle) * distance) \div Unit
      peakY == IF p.movementStyle = "random"
                 THEN ((random2 - Unit \div 2) * 2 * effectiveDeviation) \div Unit
                 ELSE (Sin(angle) * distance) \div Unit
      peakOffsetX == ((IF isPeak THEN peakX ELSE a.peakOffsetX) * p.peakDecay) \div Unit
      peakOffsetY == ((IF isPeak THEN peakY ELSE a.peakOffsetY) * p.peakDecay) \div Unit
      currentX == smoothDamp(a.currentX, p.baseX + peakOffsetX, p.smoothing, deltaTime)
      currentY == smoothDamp(a.currentY, p.baseY + peakOffsetY, p.smoothing, deltaTime)
  IN [a EXCEPT !.previousAudioLevel = rawValue,
               !.peaks = @ + IF isPeak THEN 1 ELSE 0,
               !.radialAngle = radialAngle,
               !.peakOffsetX = peakOffsetX, !.peakOffsetY = peakOffsetY,
               !.currentX = currentX, !.currentY = currentY,
               !.currentOutput = [x |-> clamp(currentX, 0, 100 * Unit),
                                  y |-> clamp(currentY, 0, 100 * Unit)]]

\* A glitch animator without hold timer: active only above the threshold.
GlitchIntensityUpdate_NoHold(a, audioData, deltaTime) ==
  LET smoothedValue ==
        smoothDamp(a.smoothedValue,
                   getAudioValue(audioData, a.params.audioAnalysisSource),
                   a.params.smoothing, deltaTime)
      above ==
        smoothedValue >
          (a.params.threshold * (Unit - (MultiplierOf(a.params) - Unit \div 2)))
            \div Unit
  IN [a EXCEPT !.smoothedValue = smoothedValue,
               !.peaks = @ + IF above THEN 1 ELSE 0,
               !.lastPeakTime = IF above THEN audioData.timestamp ELSE @,
               !.currentOutput = [speed |-> "slow", shouldGlitch |-> above,
                                  rawIntensity |-> smoothedValue]]

\* GlitchIntensityAnimatorEffectInstance.update
GlitchIntensityUpdate(a, audioData, deltaTime) ==
  LET p == a.params
      rawValue == getAudioValue(audioData, p.audioAnalysisSource)
      smoothedValue == smoothDamp(a.smoothedValue, rawValue, p.smoothing, deltaTime)
      multiplier == MultiplierOf(p)
      effectiveThreshold ==
        (p.threshold * (Unit - (multiplier - Unit \div 2))) \div Unit
      currentTime == audioData.timestamp
      lastPeakTime == IF smoothedValue > effectiveThreshold
                        THEN currentTime ELSE a.lastPeakTime
      timeSincePeak == currentTime - lastPeakTime
      shouldGlitch ==
        smoothedValue > effectiveThreshold \/ timeSincePeak < p.holdTime
      speed == IF smoothedValue < p.slowThreshold THEN "slow"
               ELSE IF smoothedValue < p.mediumThreshold THEN "medium"
               ELSE "fast"
  IN [a EXCEPT !.smoothedValue = smoothedValue,
               !.peaks = @ + IF smoothedValue > effectiveThreshold THEN 1 ELSE 0,
               !.lastPeakTime = lastPeakTime,
               !.currentOutput = [speed |-> speed, shouldGlitch |-> shouldGlitch,
                                  rawIntensity |-> smoothedValue]]

\* update(audioData, deltaTime) of the instance, whatever its class.
AnimatorUpdate(a, audioData, deltaTime, random1, random2) ==
  LET b == CASE a.type = "maskRadiusAnimator" ->
                  MaskRadiusUpdate(a, audioData, deltaTime)
             [] a.type = "gradientTiltAnimator" ->
                  GradientTiltUpdate(a, audioData, deltaTime)
             [] a.type = "elementOpacityAnimator" ->
                  ElementOpacityUpdate(a, audioData, deltaTime)
             [] a.type = "gradientScaleAnimator" ->
                  GradientScaleUpdate(a, audioData, deltaTime)
             [] a.type = "gradientPositionAnimator" ->
                  GradientPositionUpdate(a, audioData, deltaTime, random1, random2)
             [] a.type = "glitchIntensityAnimator" ->
                  GlitchIntensityUpdate(a, audioData, deltaTime)
  IN [b EXCEPT !.updates = @ + 1,
               !.fedNeutral = @ /\ IsNeutral(audioData),
               !.warnings = @ + Warned(a)]

\* ------------------------------------------------ parameters and snapshots
\* Per-instance intensityMultipliers (EmptyObject: the field is absent).
MultiplierOverrides ==
  {EmptyObject, [moderate |-> 1500], [moderate |-> 0 - 2000], [subtle |-> 1000]}

\* The fields every animator's parameters have.
BaseParams ==
  {k \in [audioAnalysisSource : {"rms", "bass", "unknown"},
          smoothing : {0, 500},
          intensity : EffectIntensity,
          intensityMultipliers : MultiplierOverrides] :
     \/ k.audioAnalysisSource = "rms" /\ k.smoothing = 0
     \/ k.intensity = DefaultIntensity /\ k.intensityMultipliers = EmptyObject}

\* <<min, base, max>> with min <= base <= max.
Ranges ==
  {<<20000, 50000, 80000>>, <<20000, 20000, 80000>>, <<20000, 80000, 80000>>,
   <<0, 30000, 100000>>}
TiltRanges == {<<0 - 15000, 0, 15000>>, <<0, 0, 30000>>, <<10000, 40000, 45000>>}
\* <<minScale, maxScale>> around the base scale 1.0.
ScaleRanges == {<<500, 1500>>, <<1000, 2000>>, <<800, 1000>>}

AnimatorParams(type) ==
  CASE type = "maskRadiusAnimator" ->
         {Spread(k, [minRadius |-> r[1], baseRadius |-> r[2], maxRadius |-> r[3]]) :
            k \in BaseParams, r \in Ranges}
    [] type = "gradientTiltAnimator" ->
         {Spread(k, [minTilt |-> r[1], baseTilt |-> r[2], maxTilt |-> r[3],
                     oscillate |-> o]) :
            k \in BaseParams, r \in TiltRanges, o \in BOOLEAN}
    [] type = "elementOpacityAnimator" ->
         {Spread(k, [minOpacity |-> r[1], baseOpacity |-> r[2], maxOpacity |-> r[3]]) :
            k \in BaseParams, r \in Ranges}
    [] type = "gradientScaleAnimator" ->
         {Spread(k, [baseWidth |-> 50000, baseHeight |-> 40000,
                     minScale |-> r[1], maxScale |-> r[2], aspectLock |-> l]) :
            k \in BaseParams, r \in ScaleRanges, l \in BOOLEAN}
    [] type = "gradientPositionAnimator" ->
         {Spread(k, [baseX |-> 50000, baseY |-> 30000, maxDeviation |-> 20000,
                     peakThreshold |-> 300, peakDecay |-> 500,
                     movementStyle |-> m]) :
            k \in {b \in BaseParams : b.intensityMultipliers = EmptyObject},
            m \in {"random", "radial", "bounce"}}
    [] type = "glitchIntensityAnimator" ->
         {Spread(k, [threshold |-> 500, slowThreshold |-> 300,
                     mediumThreshold |-> 600, holdTime |-> 2 * ReferenceFrame]) :
            k \in BaseParams}

\* The metrics a snapshot can carry: silence, a moderate level, full scale.
FrameLevels ==
  {[rms |-> 0, bass |-> 0, midLow |-> 0, midHigh |-> 0, treble |-> 0,
    from |-> Undefined],
   [rms |-> 30, bass |-> 128, midLow |-> 64, midHigh |-> 0, treble |-> 255,
    from |-> GlobalNode],
   [rms |-> 100, bass |-> 255, midLow |-> 255, midHigh |-> 255, treble |-> 255,
    from |-> GlobalNode]}

\* The time between two updates: none, one reference frame, two.
DeltaTimes == {0, ReferenceFrame, 2 * ReferenceFrame}

\* The values Math.random() returns.
Randoms == {0, 334}
\* Only the position animator calls Math.random(): once or, in the random
\* style, twice.
RandomsOf(a, call) ==
  IF a.type = "gradientPositionAnimator"
     /\ (call = 1 \/ a.params.movementStyle = "random")
    THEN Randoms ELSE {0}

\* No instance has been made yet.
NoAnimator == [type |-> "none"]

\* Time passes before the instance is made.
Elapse ==
  /\ animator = NoAnimator
  /\ frame.time = 0
  /\ frame' = [frame EXCEPT !.op = "elapse", !.time = 2 * ReferenceFrame]
  /\ UNCHANGED animator

\* factory.createInstance(id, params)
NewInstance ==
  /\ animator = NoAnimator
  /\ \E type \in AnimatorTypes :
       \E params \in AnimatorParams(type) :
         animator' = NewAnimator(type, params)
  /\ frame' = [frame EXCEPT !.op = "new"]

\* instance.start(), called by registerEffect
StartInstance ==
  /\ animator # NoAnimator
  /\ ~animator.started
  /\ animator' = AnimatorStart(animator)
  /\ frame' = [frame EXCEPT !.op = "start"]

\* instance.update(audioData, deltaTime), called by a tick
UpdateInstance ==
  /\ animator # NoAnimator
  /\ animator.started
  /\ animator.updates < MaxUpdates
  /\ \E level \in FrameLevels, deltaTime \in DeltaTimes,
        random1 \in RandomsOf(animator, 1), random2 \in RandomsOf(animator, 2) :
       LET t == frame.time + deltaTime
           audioData == Spread(level, [timestamp |-> t])
       IN /\ animator' = AnimatorUpdate(animator, audioData, deltaTime,
                                        random1, random2)
          /\ frame' = [op |-> "update", time |-> t, deltaTime |-> deltaTime,
                       audioData |-> audioData]

\* One animator instance on its own.
NextAnimators ==
  \/ (Elapse /\ UNCHANGED <<engineSide, configVars>>)
  \/ (NewInstance /\ UNCHANGED <<engineSide, configVars>>)
  \/ (StartInstance /\ UNCHANGED <<engineSide, configVars>>)
  \/ (UpdateInstance /\ UNCHANGED <<engineSide, configVars>>)

SpecAnimators == Init /\ [][NextAnimators]_vars

\* ------------------------------------------------------------ properties
\* Steps of a tick, recognised from the stack (f is the running tick, Top).
\* The effect loop moved on to the Map entry at position VisitedSlot.
VisitStep ==
  InTick /\ Len(stack') = Len(stack) /\ stack'[Len(stack)].idx # Top.idx
VisitedSlot == stack'[Len(stack)].idx
\* The instance update() was called on by that step (0: skipped).
UpdatedInst == stack'[Len(stack)].curInst
\* The subscriber loop called a callback of instance Top.curInst.
NotifyStep ==
  InTick /\ Len(stack') = Len(stack) + 1 /\ stack'[Len(stack')].k = "cb"
\* tick() returned.
TickReturnStep == InTick /\ Len(stack') = Len(stack) - 1
\* The activations of tick() on the stack.
TickDepth == Cardinality({d \in 1..Len(stack) : stack[d].k = "tick"})
LiveSlots(m) == {k \in 1..Len(m) : m[k].live}

\* C1: whenever no engine code is executing, the engine is running exactly
\* when at least one effect is registered (registering the first effect
\* starts the loop, unregistering the last one stops it).
C1_RunningIffRegistered ==
  stack = <<>> => (isRunning <=> MapSize(effects) > 0)

\* The engine is running again after an effect was unregistered.
C1_Witness ==
  /\ stack = <<>>
  /\ isRunning
  /\ MapSize(effects) > 0
  /\ \E i \in 1..Len(instances) : instances[i].ended = 1

\* C2: ticks never nest: at most one activation of tick() exists at any
\* time, whatever a subscriber callback calls from inside a tick.
C2_TicksNeverNest == TickDepth <= 1

\* C3: registering an instance under an id that is already registered ends
\* the old instance exactly once, before the new one is started and
\* installed; afterwards exactly one entry holds the id, it holds the new
\* instance, and the number of registered effects is unchanged.
C3_ReRegisterReplaces ==
  [][\A id \in EffectIds :
       (/\ MapHas(effects, id)
        /\ Len(instances') = Len(instances) + 1
        /\ instances'[Len(instances')].id = id)
       => LET o == effects[MapIndex(effects, id)].inst
              n == Len(instances')
          IN /\ life' = <<Ev("end", o), Ev("start", n), Ev("install", n)>>
             /\ instances[o].ended = 0
             /\ instances'[o].ended = 1
             /\ instances'[n].started = 1
             /\ instances'[n].ended = 0
             /\ Cardinality({k \in LiveSlots(effects') : effects'[k].key = id}) = 1
             /\ effects'[MapIndex(effects', id)].inst = n
             /\ MapSize(effects') = MapSize(effects)]_vars

\* A re-registration has just been made: the old instance has ended and the
\* new one holds the id.
C3_Witness ==
  /\ Len(life) = 3
  /\ life[1].e = "end"
  /\ instances[life[1].i].ended = 1
  /\ life[2] = Ev("start", Len(instances))
  /\ getEffectOutput(effects, instances[Len(instances)].id) # NullOutput

\* C4: when a subscriber callback unregisters an effect during a tick, the
\* tick runs to completion (it returns only with both loops exhausted), it
\* calls update() only on instances that have not ended and that it has
\* not updated before, and it invokes no subscriber of an instance whose
\* end() has been called.
C4_UnregisterDuringTick ==
  [][/\ (VisitStep /\ UpdatedInst # 0)
          => /\ instances[UpdatedInst].ended = 0
             /\ instances[UpdatedInst].out.tick # Top.n
     /\ NotifyStep
          => /\ Top.curInst # 0
             /\ instances[Top.curInst].ended = 0
     /\ TickReturnStep
          => /\ MapNext(effects, Top.idx) = 0
             /\ NextSubscriber(Top, effects) = 0]_vars

\* A tick carries on after the callback it called unregistered the effect
\* being notified, which had another subscriber waiting.
C4_Witness ==
  /\ InTick
  /\ Top.curInst # 0
  /\ instances[Top.curInst].ended = 1
  /\ Top.cur # 0
  /\ Len(effects[Top.cur].subscribers) > Top.sidx

\* C5: an exception thrown by a subscriber callback is caught: the tick
\* that called it stays on the stack with its loops where they were, so the
\* remaining subscribers and effects are processed; the tick returns only
\* with every registered effect updated and the next frame requested.
C5_CallbackErrorContained ==
  [][/\ (life' = <<Ev("error", 0)>>)
          => /\ InCallback
             /\ stack' = Pop(stack)
             /\ stack'[Len(stack')].k = "tick"
     /\ TickReturnStep
          => /\ NextSubscriber(Top, effects) = 0
             /\ \A k \in LiveSlots(effects) :
                  instances[effects[k].inst].out.tick = Top.n
             /\ animationFrameId' # Null
             /\ animationFrameId' \in rafPending'
             /\ animationFrameId' \notin rafPending]_vars

\* A callback has just thrown and another subscriber of the same effect is
\* still to be called.
C5_Witness ==
  /\ life = <<Ev("error", 0)>>
  /\ InTick
  /\ NextSubscriber(Top, effects) # 0

\* C6: the output update() returned is stored before the subscriber
\* callbacks run: inside a callback's entry getEffectOutput(id) is the output
\* of this tick, and between ticks the stored output of every registered
\* effect is the output its last update() returned.
C6_OutputStoredBeforeCallbacks ==
  /\ (InCallback /\ Top.ops = MaxCbOps)
       => LET f == stack[Len(stack) - 1]
              i == f.curInst
          IN /\ i # 0
             /\ instances[i].out.tick = f.n
             /\ getEffectOutput(effects, instances[i].id) = instances[i].out
  /\ stack = <<>>
       => \A k \in LiveSlots(effects) :
            getEffectOutput(effects, effects[k].key) = instances[effects[k].inst].out

\* A subscriber callback of a frame-clock tick is entered.
C6_Witness ==
  /\ InCallback
  /\ Top.ops = MaxCbOps
  /\ stack[Len(stack) - 1].n >= 2
  /\ getEffectOutput(effects, instances[stack[Len(stack) - 1].curInst].id).tick
       = stack[Len(stack) - 1].n

\* C7: a tick processes the effects in registration order: when it updates
\* an instance or notifies its subscribers, the registered instances it has
\* already updated are exactly those registered earlier.
C7_RegistrationOrder ==
  [][/\ (VisitStep /\ UpdatedInst # 0)
          => \A j \in 1..Len(instances) :
               (instances[j].ended = 0 /\ j # UpdatedInst)
                 => ((j < UpdatedInst) <=> (instances[j].out.tick = Top.n))
     /\ NotifyStep
          => \A j \in 1..Len(instances) :
               (instances[j].ended = 0 /\ j # Top.curInst)
                 => ((j < Top.curInst) <=> (instances[j].out.tick = Top.n))]_vars

\* A tick has updated two registered effects.
C7_Witness ==
  /\ InTick
  /\ \E i, j \in 1..Len(instances) :
       /\ i < j
       /\ instances[i].ended = 0
       /\ instances[j].ended = 0
       /\ instances[i].out.tick = Top.n
       /\ instances[j].out.tick = Top.n

\* C8: an effect whose enabled parameter is false is skipped by the tick:
\* no update(), its stored output unchanged, no subscriber called; every
\* enabled registered effect is still updated in that tick.
C8_DisabledSkipped ==
  [][/\ (VisitStep /\ ~instances[effects[VisitedSlot].inst].params.enabled)
          => /\ effects' = effects
             /\ instances' = instances
             /\ stack'[Len(stack)].cur = 0
             /\ NextSubscriber(stack'[Len(stack)], effects') = 0
     /\ (VisitStep /\ instances[effects[VisitedSlot].inst].params.enabled)
          => /\ UpdatedInst = effects[VisitedSlot].inst
             /\ instances'[UpdatedInst].out.tick = Top.n
             /\ effects'[VisitedSlot].currentOutput = instances'[UpdatedInst].out
     /\ TickReturnStep
          => \A k \in LiveSlots(effects) :
               instances[effects[k].inst].params.enabled
                 <=> (effects[k].currentOutput.tick = Top.n)]_vars

\* A tick has updated one effect and has just skipped a disabled effect that
\* has a subscriber.
C8_Witness ==
  /\ InTick
  /\ Top.idx # 0
  /\ Top.cur = 0
  /\ effects[Top.idx].live
  /\ ~instances[effects[Top.idx].inst].params.enabled
  /\ effects[Top.idx].subscribers # <<>>
  /\ effects[Top.idx].currentOutput.tick # Top.n
  /\ \E k \in LiveSlots(effects) : effects[k].currentOutput.tick = Top.n

\* C9: update() of an effect bound to a track (its params carry a track id,
\* a non-empty string) gets a snapshot read from the analyser registered
\* under that id, or the neutral snapshot when no analyser is registered
\* under it, even while the shared analyser delivers levels; an effect
\* without a track id gets the shared snapshot the tick took when it began.
C9_TrackSnapshot ==
  [][(VisitStep /\ UpdatedInst # 0)
       => LET p == instances[UpdatedInst].params
              d == instances'[UpdatedInst].out.data
          IN /\ (p.trackId = NoTrack) => (d = Top.global)
             /\ (p.trackId # NoTrack /\ trackAnalyzers[p.trackId] # Undefined)
                  => /\ d.from = trackAnalyzers[p.trackId]
                     /\ \E r \in AnalyserReads(trackAnalyzers[p.trackId]) :
                          d = ComputeFrame(r[1], r[2], now, trackAnalyzers[p.trackId])
             /\ (p.trackId # NoTrack /\ trackAnalyzers[p.trackId] = Undefined)
                  => /\ IsNeutral(d)
                     /\ d.from = Undefined]_vars

\* A track-bound effect was updated with the neutral snapshot while the
\* shared analyser was delivering levels.
C9_Witness ==
  /\ InTick
  /\ Top.curInst # 0
  /\ instances[Top.curInst].params.trackId # NoTrack
  /\ trackAnalyzers[instances[Top.curInst].params.trackId] = Undefined
  /\ audioAnalyzer # Undefined
  /\ ~IsNeutral(Top.global)
  /\ instances[Top.curInst].out.tick = Top.n
  /\ IsNeutral(instances[Top.curInst].out.data)

LayerOf(obj, field, key) ==
  IF field \in DOMAIN obj /\ key \in DOMAIN obj[field] THEN obj[field][key] ELSE EmptyObject
LayersOf(doc, type, intensity, variant, params) ==
  <<doc.effects[type].defaults,
    LayerOf(doc.effects[type], "intensityOverrides", intensity),
    LayerOf(doc.effects[type], "variants", variant),
    params>>

\* C11: resolveParams returns, for every key, the value of the
\* highest-priority layer that sets it (defaults < intensityOverrides[intensity]
\* < variants[variant] < caller overrides); intensity is the intensity of the
\* call, and enabled is overrides.enabled when present, true otherwise.
C11_ResolutionOrder ==
  (lastCall.op = "resolve" /\ ~lastCall.out.threw)
    => LET layers == LayersOf(ConfigDocuments[config], lastCall.type, lastCall.intensity,
                              lastCall.variant, lastCall.params)
           v == lastCall.out.value
       IN /\ DOMAIN v = UNION {DOMAIN layers[i] : i \in 1..4} \cup {"intensity", "enabled"}
          /\ \A k \in DOMAIN v \ {"intensity", "enabled"} :
               \E i \in 1..4 :
                 /\ k \in DOMAIN layers[i]
                 /\ \A j \in (i + 1)..4 : k \notin DOMAIN layers[j]
                 /\ v[k] = layers[i][k]
          /\ v.intensity = lastCall.intensity
          /\ v.enabled = IF "enabled" \in DOMAIN lastCall.params
                           THEN lastCall.params.enabled ELSE "true"

\* A resolution at intensity strong with a variant that carries another
\* intensity and a caller override: all four layers contribute.
C11_Witness ==
  /\ lastCall.op = "resolve"
  /\ config = 1
  /\ lastCall.type = "maskRadiusAnimator"
  /\ lastCall.intensity = "strong"
  /\ lastCall.variant = "trackVisualizer"
  /\ lastCall.params = [baseRadius |-> "55"]
  /\ lastCall.out.value = [baseRadius |-> "55", smoothing |-> "0.3",
                           intensity |-> "strong", enabled |-> "true"]

\* C12: resolving a type that the configuration does not have throws and
\* returns no params; resolving with a variant that is not configured for
\* the type does not throw, logs, and returns what the same call returns
\* without variant.
C12_UnknownTypeAndVariant ==
  (lastCall.op = "resolve" /\ config # Null)
    => LET doc == ConfigDocuments[config]
       IN /\ (lastCall.type \notin DOMAIN doc.effects)
               => /\ lastCall.out.threw
                  /\ lastCall.out.value = EmptyObject
          /\ (/\ lastCall.type \in DOMAIN doc.effects
              /\ lastCall.variant # Undefined
              /\ ~("variants" \in DOMAIN doc.effects[lastCall.type]
                   /\ lastCall.variant \in DOMAIN doc.effects[lastCall.type].variants))
               => /\ ~lastCall.out.threw
                  /\ lastCall.out.logs # <<>>
                  /\ lastCall.out.value =
                       resolveParams(doc, lastCall.type, lastCall.intensity, Undefined,
                                     lastCall.params).value

\* C13: factory.create(id, p) constructs an instance whose params are the
\* resolver's result for (type, p.intensity or the default intensity, no
\* variant, overrides p).
C13_CreateMatchesResolver ==
  (lastCall.op = "create" /\ ~lastCall.out.threw)
    => lastCall.out.value =
         resolve(config, lastCall.type,
                 IF "intensity" \in DOMAIN lastCall.params
                   THEN lastCall.params.intensity ELSE DefaultIntensity,
                 Undefined, lastCall.params).value

\* C14: while no configuration document is loaded, create and
\* createFromVariant throw and construct nothing; an animator is only ever
\* constructed with params that cover the defaults of its type.
C14_NoAnimatorWithoutConfig ==
  (lastCall.op \in {"create", "createFromVariant"})
    => /\ (config = Null)
            => /\ lastCall.out.threw
               /\ ~lastCall.out.constructed
               /\ lastCall.out.value = EmptyObject
       /\ lastCall.out.constructed
            => /\ config # Null
               /\ ~lastCall.out.threw
               /\ DOMAIN ConfigDocuments[config].effects[lastCall.type].defaults
                    \subseteq DOMAIN lastCall.out.value

\* createFromVariant was refused while a load was still in flight.
C14_Witness ==
  /\ lastCall.op = "createFromVariant"
  /\ config = Null
  /\ loading
  /\ fetches > 0
  /\ lastCall.out.threw
  /\ ~lastCall.out.constructed

\* C15: register keeps the first factory registered under a type: a second
\* registration of the type leaves the registry unchanged and logs a
\* warning; a first registration makes getAnimator(type) return that factory
\* and changes no other type; only register and clear change the registry.
C15_FirstRegistrationKept ==
  [][/\ (lastCall'.op = "register")
          => IF getAnimator(factories, lastCall'.type) # "null"
               THEN /\ factories' = factories
                    /\ lastCall'.logs # <<>>
               ELSE /\ getAnimator(factories', lastCall'.type) = lastCall'.factory
                    /\ lastCall'.logs = <<>>
                    /\ \A u \in FactoryTypes \ {lastCall'.type} :
                         getAnimator(factories', u) = getAnimator(factories, u)
     /\ (lastCall'.op = "getAnimator")
          => lastCall'.out = getAnimator(factories, lastCall'.type)
     /\ (lastCall'.op \notin {"register", "clear"}) => factories' = factories]_vars

\* A second factory was offered for a registered type and refused.
C15_Witness ==
  /\ lastCall.op = "register"
  /\ lastCall.logs # <<>>
  /\ getAnimator(factories, lastCall.type) # "null"
  /\ getAnimator(factories, lastCall.type) # lastCall.factory

\* C16: after every update, at every intensity level and under every
\* per-instance multiplier override, the output of a numeric animator lies
\* within its declared bounds: the radius in [minRadius, maxRadius], the tilt
\* in [minTilt, maxTilt] in both oscillate modes, the opacity in
\* [minOpacity, maxOpacity], the width and height scale factors of the scale
\* animator in [minScale, maxScale].
C16_OutputWithinBounds ==
  (animator.type # "none" /\ animator.updates > 0) =>
    LET p == animator.params
        o == animator.currentOutput
    IN CASE animator.type = "maskRadiusAnimator" ->
              p.minRadius <= o.radius /\ o.radius <= p.maxRadius
         [] animator.type = "gradientTiltAnimator" ->
              p.minTilt <= o.tilt /\ o.tilt <= p.maxTilt
         [] animator.type = "elementOpacityAnimator" ->
              p.minOpacity <= o.opacity /\ o.opacity <= p.maxOpacity
         [] animator.type = "gradientScaleAnimator" ->
              /\ p.minScale <= o.widthScaleFactor
              /\ o.widthScaleFactor <= p.maxScale
              /\ p.minScale <= o.heightScaleFactor
              /\ o.heightScaleFactor <= p.maxScale
         [] OTHER -> TRUE

\* C17: a radius animator with base 50, min 20, max 80, intensity moderate
\* (multiplier 0.6), source "rms" and smoothing 0, fed a snapshot with
\* rms 0.3 (raw value 0.6 after the normalisation multiplier 2.0), outputs
\* the radius 41.6 after that update.
C17_EndToEndRadius ==
  (/\ animator.type = "maskRadiusAnimator"
   /\ animator.params =
        [audioAnalysisSource |-> "rms", smoothing |-> 0,
         intensity |-> "moderate", intensityMultipliers |-> EmptyObject,
         minRadius |-> 20000, baseRadius |-> 50000, maxRadius |-> 80000]
   /\ frame.op = "update"
   /\ frame.audioData.rms = 30)
    => animator.currentOutput.radius = 41600

\* C17, as the code has it: the raw value 0.6 is mapped into the effective
\* range [32, 68] centred on the base, so the radius is 32 + 0.6 * 36 = 53.6
\* after an update with a positive deltaTime; with deltaTime 0
\* (Math.pow(0, 0) is 1) the smoothed value does not move, and the first
\* update after start() leaves the radius at 50.
C17_EndToEndRadiusCentred ==
  (/\ animator.type = "maskRadiusAnimator"
   /\ animator.params =
        [audioAnalysisSource |-> "rms", smoothing |-> 0,
         intensity |-> "moderate", intensityMultipliers |-> EmptyObject,
         minRadius |-> 20000, baseRadius |-> 50000, maxRadius |-> 80000]
   /\ frame.op = "update"
   /\ frame.audioData.rms = 30)
    => /\ frame.deltaTime > 0 =>
            /\ animator.smoothedValue = 600
            /\ animator.currentOutput.radius = 53600
       /\ (frame.deltaTime = 0 /\ animator.updates = 1) =>
            /\ animator.smoothedValue = 500
            /\ animator.currentOutput.radius = 50000

\* The scenario ran: the first update, one reference frame after start().
C17_Witness ==
  /\ animator.type = "maskRadiusAnimator"
  /\ animator.params =
       [audioAnalysisSource |-> "rms", smoothing |-> 0,
        intensity |-> "moderate", intensityMultipliers |-> EmptyObject,
        minRadius |-> 20000, baseRadius |-> 50000, maxRadius |-> 80000]
  /\ frame.op = "update"
  /\ frame.audioData.rms = 30
  /\ frame.deltaTime = ReferenceFrame
  /\ animator.updates = 1
  /\ animator.currentOutput.radius = 53600

\* C18: with oscillate = false the tilt animator maps the smoothed value
\* linearly across the whole of [minTilt, maxTilt], whatever the intensity
\* level: the smoothed value 0 gives minTilt, the smoothed value 1 gives
\* maxTilt, and the tilt is clamped to [minTilt, maxTilt].
C18_LinearTiltSpansRange ==
  (/\ animator.type = "gradientTiltAnimator"
   /\ ~animator.params.oscillate
   /\ animator.updates > 0)
    => LET p == animator.params
           tilt == animator.currentOutput.tilt
       IN /\ p.minTilt <= tilt /\ tilt <= p.maxTilt
          /\ animator.smoothedValue = 0 => tilt = p.minTilt
          /\ animator.smoothedValue = Unit => tilt = p.maxTilt

\* C19: while every snapshot fed to an animator is the neutral one, its
\* output after every update is its base output: radius = baseRadius,
\* tilt = baseTilt, opacity = baseOpacity, width and height = baseWidth and
\* baseHeight, position = (baseX, baseY), shouldGlitch = false.
C19_NeutralAudioHoldsBase ==
  (animator.type # "none" /\ animator.updates > 0 /\ animator.fedNeutral) =>
    LET p == animator.params
        o == animator.currentOutput
    IN CASE animator.type = "maskRadiusAnimator" -> o.radius = p.baseRadius
         [] animator.type = "gradientTiltAnimator" -> o.tilt = p.baseTilt
         [] animator.type = "elementOpacityAnimator" -> o.opacity = p.baseOpacity
         [] animator.type = "gradientScaleAnimator" ->
              o.width = p.baseWidth /\ o.height = p.baseHeight
         [] animator.type = "gradientPositionAnimator" ->
              o.x = p.baseX /\ o.y = p.baseY
         [] animator.type = "glitchIntensityAnimator" -> ~o.shouldGlitch

\* C20: for the parameters of a radius, tilt, opacity or scale animator that
\* has no multiplier override of its own, the width of the effective range
\* (effectiveMax - effectiveMin; range * multiplier in the non-oscillating
\* tilt mode) under the configured multiplier table does not decrease from
\* one intensity level to the next: subtle, mild, moderate, strong, extreme.
C20_RangeWidthMonotone ==
  (/\ animator.type \in {"maskRadiusAnimator", "gradientTiltAnimator",
                         "elementOpacityAnimator", "gradientScaleAnimator"}
   /\ animator.params.intensityMultipliers = EmptyObject)
    => LET p == animator.params
           Width(level) ==
             LET m == MultiplierOf([p EXCEPT !.intensity = level])
             IN CASE animator.type = "maskRadiusAnimator" ->
                       effectiveMax(p.minRadius, p.maxRadius, p.baseRadius, m)
                         - effectiveMin(p.minRadius, p.maxRadius, p.baseRadius, m)
                  [] animator.type = "gradientTiltAnimator" ->
                       IF p.oscillate
                         THEN effectiveMax(p.minTilt, p.maxTilt, p.baseTilt, m)
                                - effectiveMin(p.minTilt, p.maxTilt, p.baseTilt, m)
                         ELSE effectiveRange(p.minTilt, p.maxTilt, m)
                  [] animator.type = "elementOpacityAnimator" ->
                       effectiveMax(p.minOpacity, p.maxOpacity, p.baseOpacity, m)
                         - effectiveMin(p.minOpacity, p.maxOpacity, p.baseOpacity, m)
                  [] animator.type = "gradientScaleAnimator" ->
                       effectiveMax(p.minScale, p.maxScale, Unit, m)
                         - effectiveMin(p.minScale, p.maxScale, Unit, m)
       IN \A l1, l2 \in EffectIntensity :
            IntensityRank[l1] <= IntensityRank[l2] => Width(l1) <= Width(l2)

\* A radius animator at level strong was updated at full level and put out
\* the top of its effective range, [26, 74], which is wider than the range
\* [44, 56] of level subtle.
C20_Witness ==
  /\ animator.type = "maskRadiusAnimator"
  /\ animator.params.intensityMultipliers = EmptyObject
  /\ animator.params.intensity = "strong"
  /\ animator.params.minRadius = 20000
  /\ animator.params.baseRadius = 50000
  /\ animator.params.maxRadius = 80000
  /\ animator.updates > 0
  /\ animator.smoothedValue = Unit
  /\ animator.currentOutput.radius = 74000
  /\ effectiveMin(20000, 80000, 50000, DEFAULT_INTENSITY_MULTIPLIERS.subtle) = 44000
  /\ effectiveMax(20000, 80000, 50000, DEFAULT_INTENSITY_MULTIPLIERS.subtle) = 56000

\* C21: on every update with a positive deltaTime and a smoothing
\* coefficient below 1 the smoothed value moves towards the raw value of
\* that update and never passes it: it stays between its previous value and
\* the raw value, and it stands still only when it has reached the raw value
\* (or is within the rounding of the fixed point of it).  With the raw input
\* held constant the smoothed value therefore approaches it monotonically.
C21_SmoothingMonotone ==
  [][(/\ animator # NoAnimator
      /\ animator'.updates = animator.updates + 1
      /\ animator.type \in {"maskRadiusAnimator", "gradientTiltAnimator",
                            "elementOpacityAnimator", "gradientScaleAnimator",
                            "glitchIntensityAnimator"}
      /\ frame'.deltaTime > 0
      /\ animator.params.smoothing < Unit)
       => LET raw == getAudioValue(frame'.audioData,
                                   animator.params.audioAnalysisSource)
              old == animator.smoothedValue
              new == animator'.smoothedValue
              factor == Unit - pow(animator.params.smoothing,
                                   frame'.deltaTime \div ReferenceFrame)
          IN /\ Min2(old, raw) <= new
             /\ new <= Max2(old, raw)
             /\ (new = old) => (raw - old) * factor < Unit /\ old <= raw]_vars

\* The raw value was held at 1.0 over two updates one reference frame apart
\* with smoothing 0.5: the smoothed value went from 0.5 to 0.75 to 0.875.
C21_Witness ==
  /\ animator # NoAnimator
  /\ animator.type = "maskRadiusAnimator"
  /\ animator.params.smoothing = 500
  /\ animator.params.audioAnalysisSource = "rms"
  /\ animator.updates = 2
  /\ frame.deltaTime = ReferenceFrame
  /\ frame.audioData.rms = 100
  /\ animator.smoothedValue = 875

\* C22: position animator.  An update whose raw value exceeds the previous
\* one by more than peakThreshold detects a peak.  An update whose raw value
\* equals the previous one (constant input) detects none: the persistent
\* angle stays, both offset components are multiplied by peakDecay, and each
\* coordinate of the smoothed position moves from where it was towards
\* base + offset without passing it (onto it when smoothing is 0 and
\* deltaTime positive), so the position returns to (baseX, baseY) as the
\* offsets decay; the output is that position clamped to 0..100.
C22_PeakDecay ==
  [][(/\ animator # NoAnimator
      /\ animator.type = "gradientPositionAnimator"
      /\ animator'.updates = animator.updates + 1)
       => LET p == animator.params
              raw == getAudioValue(frame'.audioData, p.audioAnalysisSource)
              targetX == p.baseX + animator'.peakOffsetX
              targetY == p.baseY + animator'.peakOffsetY
          IN /\ (raw - animator.previousAudioLevel > p.peakThreshold)
                  => animator'.peaks = animator.peaks + 1
             /\ (animator.updates > 0 /\ raw = animator.previousAudioLevel)
                  => /\ animator'.peaks = animator.peaks
                     /\ animator'.radialAngle = animator.radialAngle
                     /\ animator'.peakOffsetX =
                          (animator.peakOffsetX * p.peakDecay) \div Unit
                     /\ animator'.peakOffsetY =
                          (animator.peakOffsetY * p.peakDecay) \div Unit
                     /\ Min2(animator.currentX, targetX) <= animator'.currentX
                     /\ animator'.currentX <= Max2(animator.currentX, targetX)
                     /\ Min2(animator.currentY, targetY) <= animator'.currentY
                     /\ animator'.currentY <= Max2(animator.currentY, targetY)
                     /\ (p.smoothing = 0 /\ frame'.deltaTime > 0)
                          => /\ animator'.currentX = targetX
                             /\ animator'.currentY = targetY
                     /\ animator'.currentOutput =
                          [x |-> clamp(animator'.currentX, 0, 100 * Unit),
                           y |-> clamp(animator'.currentY, 0, 100 * Unit)]]_vars

\* One peak (full level after silence, radial style, 45 degrees, deviation
\* 20 * 0.6 = 12) and two more updates at the same level: the offset 8.484
\* was halved three times and the position follows it back to the base.
C22_Witness ==
  /\ animator # NoAnimator
  /\ animator.type = "gradientPositionAnimator"
  /\ animator.params.movementStyle = "radial"
  /\ animator.params.smoothing = 0
  /\ animator.params.intensity = "moderate"
  /\ animator.peaks = 1
  /\ animator.updates = 3
  /\ frame.deltaTime > 0
  /\ frame.audioData.rms = 100
  /\ animator.peakOffsetX = 1060
  /\ animator.peakOffsetY = 1060
  /\ animator.currentX = animator.params.baseX + 1060
  /\ animator.currentY = animator.params.baseY + 1060

\* C23: glitch animator.  An update on which the smoothed value exceeds the
\* intensity-adjusted threshold records its timestamp t and reports
\* shouldGlitch.  Every later update on which the threshold is not exceeded
\* keeps t and reports shouldGlitch exactly when its timestamp is below
\* t + holdTime.
C23_HoldTimer ==
  [][(/\ animator # NoAnimator
      /\ animator.type = "glitchIntensityAnimator"
      /\ animator'.updates = animator.updates + 1)
       => LET timestamp == frame'.audioData.timestamp
          IN /\ animator'.peaks > animator.peaks
                  => /\ animator'.lastPeakTime = timestamp
                     /\ animator'.currentOutput.shouldGlitch
             /\ (animator.peaks > 0 /\ animator'.peaks = animator.peaks)
                  => /\ animator'.lastPeakTime = animator.lastPeakTime
                     /\ animator'.currentOutput.shouldGlitch
                          <=> timestamp < animator.lastPeakTime
                                            + animator.params.holdTime]_vars

\* The threshold was exceeded once, at t; the next update, one reference
\* frame later, was below it, and so is this one, at t + holdTime: the hold
\* time has run out and shouldGlitch is false.
C23_Witness ==
  /\ animator # NoAnimator
  /\ animator.type = "glitchIntensityAnimator"
  /\ animator.peaks = 1
  /\ animator.updates = 3
  /\ frame.deltaTime = ReferenceFrame
  /\ frame.audioData.timestamp = animator.lastPeakTime + animator.params.holdTime
  /\ animator.params.holdTime = 2 * ReferenceFrame
  /\ ~animator.currentOutput.shouldGlitch

\* C30: glitch animator.  shouldGlitch is true after an update only if the
\* smoothed value exceeded the effective threshold on that update or on an
\* earlier update of the instance less than holdTime before; it is false on
\* every update that precedes the first exceedance, whatever the timestamp
\* of the snapshot.
C30_GlitchOnlyAfterExceedance ==
  (/\ animator # NoAnimator
   /\ animator.type = "glitchIntensityAnimator"
   /\ animator.updates > 0
   /\ animator.currentOutput.shouldGlitch)
    => /\ animator.peaks > 0
       /\ frame.audioData.timestamp - animator.lastPeakTime
            < animator.params.holdTime

\* C24: an update of an animator whose audioAnalysisSource is not a known
\* selector returns (it does not throw), treats the raw value as 0, and the
\* instance has logged its warning once, however many updates it has had.
C24_UnknownSourceWarnsOnce ==
  [][(/\ animator # NoAnimator
      /\ animator'.updates = animator.updates + 1
      /\ animator.params.audioAnalysisSource \notin KnownSources)
       => /\ animator'.warnings = 1
          /\ animator.type # "gradientPositionAnimator"
               => animator'.smoothedValue =
                    smoothDamp(animator.smoothedValue, 0,
                               animator.params.smoothing, frame'.deltaTime)
          /\ animator.type = "gradientPositionAnimator"
               => animator'.previousAudioLevel = 0 /\ animator'.peaks = 0]_vars

\* C25: the parameters that resolve, factory.create and
\* factory.createFromVariant return contain intensity and smoothing, and
\* their output bounds are ordered: minRadius <= baseRadius <= maxRadius
\* where the three are present.
C25_ResolvedBoundsOrdered ==
  (/\ lastCall.op \in {"resolve", "create", "createFromVariant"}
   /\ ~lastCall.out.threw)
    => LET v == lastCall.out.value
       IN /\ Has(v, "intensity")
          /\ Has(v, "smoothing")
          /\ (Has(v, "minRadius") /\ Has(v, "baseRadius") /\ Has(v, "maxRadius"))
               => /\ NumberOf(v.minRadius) <= NumberOf(v.baseRadius)
                  /\ NumberOf(v.baseRadius) <= NumberOf(v.maxRadius)

\* C28: a load() that was in flight when invalidate() was called changes
\* nothing when it finishes: its result is not installed as the cached
\* configuration (the loader stays not-loaded until a load() begun after the
\* invalidate completes), and it does not clear the in-flight marker of a
\* later load.
C28_InvalidatedLoadDiscarded ==
  [][(/\ lastCall'.op \in {"fetchResolve", "fetchReject"}
      /\ fetches' = fetches - 1
      /\ lastCall'.stale)
       => /\ config' = config
          /\ loading' = loading]_vars


\* C27: whenever no tick is executing, exactly one frame-clock request is
\* outstanding while the engine is running and none while it is idle, whatever
\* registerEffect/unregisterEffect calls were made, from the host or from
\* inside subscriber callbacks.
C27_OneFrameRequest ==
  (\A d \in 1..Len(stack) : stack[d].k # "tick")
    => Cardinality(rafPending) = IF isRunning THEN 1 ELSE 0


\* C26: the callbacks a tick invokes for an effect are those subscribed when
\* its notification began: a call made by a callback during the notification
\* that leaves the effect registered (subscribe, unsubscribe) does not change
\* which callbacks the tick has yet to invoke for it.
C26_SubscriberSnapshot ==
  [][\A d \in 1..Len(stack) :
       (/\ stack[d].k = "tick"
        /\ stack[d].cur # 0
        /\ d < Len(stack)
        /\ d <= Len(stack')
        /\ stack'[d] = stack[d]
        /\ effects[stack[d].cur].live
        /\ effects'[stack[d].cur].live)
         => Remaining(stack'[d], effects') = Remaining(stack[d], effects)]_vars


\* C29: a tick invokes a callback for an effect id only from the subscriber
\* Set of the registration currently installed under that id, of which the
\* callback is a member (subscribed, not unsubscribed); a registration is
\* installed with no subscriber, so a callback subscribed while the id was
\* not registered is not invoked after a later registration; and the entry
\* of an unregistered or displaced instance holds no subscriber, so its
\* callbacks are never invoked again.
C29_OnlyCurrentSubscribers ==
  [][/\ NotifyStep
          => /\ Top.cur # 0
             /\ effects[Top.cur].live
             /\ effects[Top.cur].inst = Top.curInst
             /\ effects[Top.cur].key = instances[Top.curInst].id
             /\ instances[Top.curInst].ended = 0
             /\ stack'[Len(stack)].sidx \in 1..Len(effects[Top.cur].subscribers)
             /\ effects[Top.cur].subscribers[stack'[Len(stack)].sidx] # EmptySlot
     /\ \A k \in 1..Len(effects') :
          (/\ effects'[k].live
           /\ (k > Len(effects) \/ ~effects[k].live))
            => Members(effects'[k].subscribers) = {}
     /\ \A k \in 1..Len(effects') :
          ~effects'[k].live => Members(effects'[k].subscribers) = {}]_vars

\* A tick is notifying a subscriber of the registration installed under an id
\* whose earlier registration, which had subscribers, was displaced during
\* this tick.
C29_Witness ==
  /\ InCallback
  /\ Len(stack) > 1
  /\ stack[Len(stack) - 1].k = "tick"
  /\ stack[Len(stack) - 1].cur # 0
  /\ effects[stack[Len(stack) - 1].cur].live
  /\ \E k \in 1..Len(effects), j \in 1..Len(instances) :
       /\ ~effects[k].live
       /\ Len(effects[k].subscribers) > 0
       /\ instances[j].ended = 1
       /\ instances[j].id = effects[stack[Len(stack) - 1].cur].key

====
